---- MODULE Spec2Model ----
(***************************************************************************)
(* Model of jira-spillover-get (src/go/jira-spillover-get.go): paginated   *)
(* issue search, sprint-history parsing, issue processing, epic title      *)
(* lookups and the tab-separated report writer.                            *)
(*                                                                         *)
(* Text is modelled as a sequence of tokens: <<>> is the empty string, a   *)
(* one-token sequence <<"Story">> is an opaque word, and the tokens        *)
(* "name=", "," and " " stand for the substrings the code searches for or  *)
(* inserts.  Concatenation of strings is \o.                               *)
(***************************************************************************)
EXTENDS Integers, Sequences, FiniteSets, TLC

VARIABLES
    pc,                 \* position of main: "setup", "fetch", "process", "epics", "write", "done", "exit1"
    cmd,                \* the command line and the answers typed at the prompts
    env,                \* what the run finds: [token, key, project]
    calls,              \* the external operations of the run so far, in order
    log,                \* the warnings written so far with debug output off
    jqlQuery,           \* main: jqlQuery
    daysPrior,          \* main: daysPrior after the date-range step
    appendMode,         \* main: appendMode
    pairFieldProvided,  \* global pairFieldProvided
    pairFieldName,      \* global pairFieldName
    startAt,            \* fetchAllJiraIssues: startAt
    batchCount,         \* fetchAllJiraIssues: batchCount
    allIssues,          \* fetchAllJiraIssues: allIssues
    requests,           \* offsets of the search requests sent so far
    fetchErr,           \* the error fetchAllJiraIssues returned, "none" if none
    server,             \* the search server: [N, cap] for the capped server, else [N |-> 0, cap |-> 0]
    issues,             \* main: issues returned by fetchAllJiraIssues
    idx,                \* main: number of issues processed so far
    multisprintIssues,  \* main: multisprintIssues
    epicKeysToLookup,   \* main: epicKeysToLookup
    epicKeySet,         \* main: epicKeySet
    epicTitles,         \* fetchEpicTitles / main: epicTitles
    lookups,            \* epic lookups performed so far: [key, outcome, summary]
    file,               \* the output path: [exists, lines]
    fileBefore,         \* the output path as it was when the run started
    pairFieldFoundCount,\* main: pairFieldFoundCount
    exitCode,           \* process exit status, -1 while running
    pairWarned,         \* main: the pair-field-not-found warning has been printed
    runsOk,             \* writer runs: TRUE while every writeOutputFile call so far succeeded
    sprintField,        \* parser input
    info                \* parser output, NoInfo before the call

confVars  == <<cmd, env, jqlQuery, daysPrior, appendMode, pairFieldProvided, pairFieldName>>
fetchVars == <<startAt, batchCount, allIssues, requests, fetchErr, server>>
procVars  == <<issues, idx, multisprintIssues, epicKeysToLookup, epicKeySet>>
epicVars  == <<epicTitles, lookups>>
fileVars  == <<file, fileBefore, pairFieldFoundCount, pairWarned, runsOk>>
parseVars == <<sprintField, info>>
traceVars == <<calls, log>>
vars == <<pc, exitCode, confVars, fetchVars, procVars, epicVars, fileVars, parseVars, traceVars>>

(***************************************************************************)
(* Bounds                                                                  *)
(***************************************************************************)
MaxEntries == 3     \* longest sprint-history array drawn as parser input
MaxStrLen  == 4     \* longest legacy sprint string (in tokens) drawn as parser input
MaxPageLen == 2     \* most issues in one search page of the pipeline runs
MaxIssues  == 2     \* most issues fetched in one pipeline run
MaxTotal   == 201   \* largest total a search response reports
MaxN       == 230   \* largest result set of the capped search server
MaxLines   == 4     \* writer runs stop once the file holds this many lines
MaxRows    == 2     \* most rows handed to one writer run

batchSize == 100    \* const batchSize
defaultDaysPrior == 10  \* const defaultDaysPrior

(***************************************************************************)
(* Strings                                                                 *)
(***************************************************************************)
Range(s) == {s[k] : k \in DOMAIN s}

Str(w) == <<w>>

RECURSIVE Join(_, _)
\* strings.Join(elems, sep)
Join(elems, sep) ==
    IF Len(elems) = 0 THEN <<>>
    ELSE IF Len(elems) = 1 THEN elems[1]
    ELSE elems[1] \o sep \o Join(Tail(elems), sep)

CommaSpace == <<",", " ">>

RECURSIVE SeqsUpTo(_, _)
SeqsUpTo(S, n) ==
    IF n = 0 THEN {<<>>}
    ELSE LET shorter == SeqsUpTo(S, n - 1)
         IN  shorter \cup {Append(s, x) : s \in {t \in shorter : Len(t) = n - 1}, x \in S}

(***************************************************************************)
(* parseSprintField                                                        *)
(***************************************************************************)
\* regexp `name=([^,]+)` applied with FindStringSubmatch: the leftmost
\* "name=" that is followed by at least one non-comma token, and the longest
\* run of non-comma tokens after it.  <<>> when there is no match, else
\* <<whole match, group 1>>.
FindStringSubmatch(s) ==
    LET starts == {k \in 1..(Len(s) - 1) : s[k] = "name=" /\ s[k + 1] # ","}
    IN  IF starts = {} THEN <<>>
        ELSE LET b == CHOOSE k \in starts : \A m \in starts : k <= m
                 e == CHOOSE j \in (b + 1)..Len(s) :
                          /\ \A m \in (b + 1)..j : s[m] # ","
                          /\ (j = Len(s) \/ s[j + 1] = ",")
             IN  <<SubSeq(s, b, e), SubSeq(s, b + 1, e)>>

EmptyInfo ==
    [SprintCount |-> 0, SprintNames |-> <<>>, FirstSprint |-> <<>>,
     LastSprint |-> <<>>, AllSprints |-> <<>>]

\* AddName without the uniqueNames test
AddNameAlways(acc, sprintName) ==
    [uniqueNames |-> acc.uniqueNames \cup {sprintName},
     SprintNames |-> Append(acc.SprintNames, sprintName)]

\* if !uniqueNames[sprintName] { uniqueNames[sprintName] = true; append }
AddName(acc, sprintName) ==
    IF sprintName \in acc.uniqueNames THEN acc
    ELSE [uniqueNames |-> acc.uniqueNames \cup {sprintName},
          SprintNames |-> Append(acc.SprintNames, sprintName)]

\* the name=... extraction shared by the three string branches
AddFromString(acc, sprintStr) ==
    LET matches == FindStringSubmatch(sprintStr)
    IN  IF Len(matches) > 1 THEN AddName(acc, matches[2]) ELSE acc

\* AddEntry that takes a name that is not a string as the empty name
AddEntryAnyName(acc, sprint) ==
    IF sprint.ekind \in {"mapname", "mapnonstr", "mapnoname"}
    THEN IF sprint.ekind \in {"mapname", "mapnonstr"} THEN AddName(acc, sprint.val) ELSE acc
    ELSE IF sprint.ekind = "str" THEN AddFromString(acc, sprint.val)
    ELSE acc

\* one iteration of the []interface{} loop
AddEntry(acc, sprint) ==
    IF sprint.ekind \in {"mapname", "mapnonstr", "mapnoname"}
    THEN IF sprint.ekind = "mapname" THEN AddName(acc, sprint.val) ELSE acc
    ELSE IF sprint.ekind = "str" THEN AddFromString(acc, sprint.val)
    ELSE acc

RECURSIVE ScanEntries(_, _)
ScanEntries(acc, v) ==
    IF Len(v) = 0 THEN acc ELSE ScanEntries(AddEntry(acc, Head(v)), Tail(v))

RECURSIVE ScanStrings(_, _)
ScanStrings(acc, v) ==
    IF Len(v) = 0 THEN acc ELSE ScanStrings(AddFromString(acc, Head(v)), Tail(v))

\* FinishInfo in which LastSprint is taken from the front of the list
FinishInfoLastIsFirst(names) ==
    IF Len(names) > 0
    THEN [SprintCount |-> Len(names), SprintNames |-> names,
          FirstSprint |-> names[1], LastSprint |-> names[1],
          AllSprints |-> Join(names, CommaSpace)]
    ELSE [SprintCount |-> Len(names), SprintNames |-> names,
          FirstSprint |-> <<>>, LastSprint |-> <<>>, AllSprints |-> <<>>]

\* lines 1059-1067: the derived members of SprintInfo
FinishInfo(names) ==
    IF Len(names) > 0
    THEN [SprintCount |-> Len(names), SprintNames |-> names,
          FirstSprint |-> names[1], LastSprint |-> names[Len(names)],
          AllSprints |-> Join(names, CommaSpace)]
    ELSE [SprintCount |-> Len(names), SprintNames |-> names,
          FirstSprint |-> <<>>, LastSprint |-> <<>>, AllSprints |-> <<>>]

parseSprintField(f) ==
    LET acc0 == [uniqueNames |-> {}, SprintNames |-> <<>>]
    IN  IF f.kind = "null" THEN EmptyInfo
        ELSE IF f.kind = "array"   THEN FinishInfo(ScanEntries(acc0, f.elems).SprintNames)
        ELSE IF f.kind = "strings" THEN FinishInfo(ScanStrings(acc0, f.strs).SprintNames)
        ELSE IF f.kind = "string"  THEN FinishInfo(AddFromString(acc0, f.str).SprintNames)
        ELSE FinishInfo(acc0.SprintNames)

(***************************************************************************)
(* Dates.  A date string is [nil, valid, hasTime, frac, zone, date, age]:  *)
(* nil is a null pointer; valid = FALSE is text no layout accepts (the      *)
(* empty string has empty = TRUE); hasTime, frac ("" or ".000") and zone    *)
(* ("Z", "+hh:mm", "+hhmm" or "") describe how the instant is written;      *)
(* date is the calendar date written in the string and age the number of    *)
(* hours between the instant and the moment of the run.                     *)
(***************************************************************************)
NilDate ==
    [nil |-> TRUE, empty |-> FALSE, valid |-> FALSE, hasTime |-> FALSE,
     frac |-> "", zone |-> "", date |-> <<>>, age |-> 0]

DateString(valid, hasTime, frac, zone, date, age) ==
    [nil |-> FALSE, empty |-> FALSE, valid |-> valid, hasTime |-> hasTime,
     frac |-> frac, zone |-> zone, date |-> date, age |-> age]

EmptyDate ==
    [nil |-> FALSE, empty |-> TRUE, valid |-> FALSE, hasTime |-> FALSE,
     frac |-> "", zone |-> "", date |-> <<>>, age |-> 0]

\* time.Parse(layout, s) succeeds.  Layouts are named by their Go text.  A
\* layout without a fraction still accepts one after the seconds; ".000"
\* demands exactly three digits; "Z07:00" accepts Z or +hh:mm, "-0700" only
\* +hhmm, and a bare "Z" is a literal.
TimeParses(layout, s) ==
    /\ ~s.nil /\ ~s.empty /\ s.valid
    /\ CASE layout = "2006-01-02T15:04:05Z07:00"    -> s.hasTime /\ s.zone \in {"Z", "+hh:mm"}
         [] layout = "2006-01-02T15:04:05.000-0700" -> s.hasTime /\ s.frac = ".000" /\ s.zone = "+hhmm"
         [] layout = "2006-01-02T15:04:05.000Z"     -> s.hasTime /\ s.frac = ".000" /\ s.zone = "Z"
         [] layout = "2006-01-02T15:04:05-0700"     -> s.hasTime /\ s.zone = "+hhmm"
         [] layout = "2006-01-02T15:04:05Z"         -> s.hasTime /\ s.zone = "Z"
         [] layout = "2006-01-02"                   -> ~s.hasTime
         [] OTHER -> FALSE

RFC3339 == "2006-01-02T15:04:05Z07:00"

formats ==
    << "2006-01-02T15:04:05.000-0700",
       "2006-01-02T15:04:05.000Z",
       "2006-01-02T15:04:05-0700",
       "2006-01-02T15:04:05Z",
       "2006-01-02" >>

\* formatDate: the calendar date of the first layout that parses, else ""
formatDate(datePtr) ==
    IF datePtr.nil \/ datePtr.empty THEN <<>>
    ELSE IF TimeParses(RFC3339, datePtr) THEN datePtr.date
    ELSE IF \E k \in DOMAIN formats : TimeParses(formats[k], datePtr) THEN datePtr.date
    ELSE <<>>

\* int(time.Since(t).Hours() / 24): truncation toward zero
DaysSince(age) == IF age >= 0 THEN age \div 24 ELSE -((-age) \div 24)

\* main, lines 1792-1800: the issue is skipped as resolved too long ago
ResolvedTooLongAgo(issue, days) ==
    /\ ~issue.ResolutionDate.nil
    /\ TimeParses(RFC3339, issue.ResolutionDate)
    /\ DaysSince(issue.ResolutionDate.age) > days

(***************************************************************************)
(* getEpicLink.  An epic field is [kind, str], kind "null", "string" or    *)
(* "other" (a JSON value that is neither null nor a string).               *)
(***************************************************************************)
NoEpic == <<"No Epic">>

getEpicLink(epicLinkField) ==
    IF epicLinkField.kind = "null" THEN NoEpic
    ELSE IF epicLinkField.kind = "string" /\ epicLinkField.str # <<>> THEN epicLinkField.str
    ELSE NoEpic

(***************************************************************************)
(* Decimal rendering of fmt.Sprintf("%d", n) for n >= 0                     *)
(***************************************************************************)
Digits == <<"0", "1", "2", "3", "4", "5", "6", "7", "8", "9">>

RECURSIVE Itoa(_)
Itoa(n) == IF n < 10 THEN <<Digits[n + 1]>> ELSE Itoa(n \div 10) \o <<Digits[(n % 10) + 1]>>

(***************************************************************************)
(* Issues.  An issue is the decoded record                                 *)
(*   [Key, IssueType, Status, Summary, Updated, Created, ResolutionDate,   *)
(*    Assignee, Creator, ProjectName, FixVersions, Components, Labels,     *)
(*    Resolution, StoryPoints, SprintField, EpicLinkField, Raw]            *)
(* where Assignee, Creator, Resolution and StoryPoints are [nil, str] and  *)
(* Raw maps a field name to the raw JSON value the issue carries under it, *)
(* [kind, names], kind one of "absent", "null", "objarr", "obj", "strarr", *)
(* "str", "other".                                                         *)
(***************************************************************************)
Nil == [nil |-> TRUE, str |-> <<>>]
Ptr(s) == [nil |-> FALSE, str |-> s]

\* IssueFields.UnmarshalJSON: the names that never reach AdditionalFields
knownKeys ==
    {"issuetype", "status", "summary", "updated", "created", "resolutiondate",
     "assignee", "creator", "project", "fixVersions", "components", "labels",
     "resolution", "customfield_10002", "customfield_14181", "customfield_14182"}

AbsentRaw == [kind |-> "absent", names |-> <<>>]

\* issue.Fields.AdditionalFields[name], as filled by UnmarshalJSON
AdditionalField(issue, name) ==
    IF name \in knownKeys \/ name \notin DOMAIN issue.Raw THEN AbsentRaw
    ELSE issue.Raw[name]

\* PairOfRaw without the array-of-strings attempt
PairOfRawNoStrings(raw) ==
    IF raw.kind = "absent" THEN <<>>
    ELSE IF raw.kind = "objarr" /\ Len(raw.names) > 0 THEN Join(raw.names, CommaSpace)
    ELSE IF raw.kind = "obj" /\ raw.names[1] # <<>> THEN Join(<<raw.names[1]>>, CommaSpace)
    ELSE IF raw.kind = "str" /\ raw.names[1] # <<>> THEN Join(<<raw.names[1]>>, CommaSpace)
    ELSE <<>>

\* extractFieldValues, lines 1292-1345: the Pair value of a raw field
PairOfRaw(raw) ==
    IF raw.kind = "absent" THEN <<>>
    ELSE IF raw.kind = "objarr" /\ Len(raw.names) > 0 THEN Join(raw.names, CommaSpace)
    ELSE IF raw.kind = "obj" /\ raw.names[1] # <<>> THEN Join(<<raw.names[1]>>, CommaSpace)
    ELSE IF raw.kind = "strarr" /\ Len(raw.names) > 0 THEN Join(raw.names, CommaSpace)
    ELSE IF raw.kind = "str" /\ raw.names[1] # <<>> THEN Join(<<raw.names[1]>>, CommaSpace)
    ELSE <<>>

extractFieldValues(issue, provided, fieldName) ==
    [IssueType    |-> issue.IssueType,
     Status       |-> issue.Status,
     ProjectName  |-> issue.ProjectName,
     UpdatedDate  |-> formatDate(issue.Updated),
     CreatedDate  |-> formatDate(issue.Created),
     ResolvedDate |-> formatDate(issue.ResolutionDate),
     Assignee     |-> IF ~issue.Assignee.nil THEN issue.Assignee.str ELSE <<"Unassigned">>,
     Reporter     |-> IF ~issue.Creator.nil THEN issue.Creator.str ELSE <<"Unknown">>,
     StoryPoints  |-> IF ~issue.StoryPoints.nil THEN issue.StoryPoints.str ELSE <<"N/A">>,
     FixVersions  |-> Join(issue.FixVersions, CommaSpace),
     Components   |-> Join(issue.Components, CommaSpace),
     Labels       |-> Join(issue.Labels, CommaSpace),
     Resolution   |-> IF ~issue.Resolution.nil THEN issue.Resolution.str ELSE <<>>,
     Pair         |-> IF provided /\ fieldName # ""
                      THEN PairOfRaw(AdditionalField(issue, fieldName))
                      ELSE <<"Pair">>]

(***************************************************************************)
(* writeOutputFile.  The output path is [exists, lines]; a line is the     *)
(* sequence of its tab-separated fields.                                   *)
(***************************************************************************)
\* header with Labels and Story Points exchanged
HeaderLabelsFirst ==
    << <<"Issue Type">>, <<"Issue Key">>, <<"Summary">>, <<"Status">>,
       <<"Updated Date">>, <<"Created Date">>, <<"Resolved Date">>,
       <<"Assignee">>, <<"Pair">>, <<"Project">>, <<"Fix Versions">>,
       <<"Components">>, <<"Labels">>, <<"Epic Link">>,
       <<"Epic Summary">>, <<"Story Points">>, <<"Resolution">>, <<"Reporter">>,
       <<"Number of Sprints">>, <<"First Sprint">>, <<"Last Sprint">>,
       <<"All Sprints">> >>

header ==
    << <<"Issue Type">>, <<"Issue Key">>, <<"Summary">>, <<"Status">>,
       <<"Updated Date">>, <<"Created Date">>, <<"Resolved Date">>,
       <<"Assignee">>, <<"Pair">>, <<"Project">>, <<"Fix Versions">>,
       <<"Components">>, <<"Story Points">>, <<"Epic Link">>,
       <<"Epic Summary">>, <<"Labels">>, <<"Resolution">>, <<"Reporter">>,
       <<"Number of Sprints">>, <<"First Sprint">>, <<"Last Sprint">>,
       <<"All Sprints">> >>

\* epicTitles[key] of a Go map: "" for a missing key
MapGet(m, k) == IF k \in DOMAIN m THEN m[k] ELSE <<>>

MapPut(m, k, v) == [x \in (DOMAIN m) \cup {k} |-> IF x = k THEN v ELSE m[x]]

EmptyMap == [x \in {} |-> <<>>]

\* strings.TrimSpace(s) != ""
NonBlank(s) == \E k \in DOMAIN s : s[k] # " "

\* DataRow with labels directly after components and story points, epic
\* key and epic title after them
DataRowLabelsFirst(multisprintIssue, titles, provided, fieldName) ==
    LET issue     == multisprintIssue.Issue
        values    == extractFieldValues(issue, provided, fieldName)
        looked    == MapGet(titles, multisprintIssue.EpicLink)
        epicTitle == IF looked = <<>> THEN <<"No Epic Summary">> ELSE looked
    IN  << values.IssueType, issue.Key, issue.Summary, values.Status,
           values.UpdatedDate, values.CreatedDate, values.ResolvedDate,
           values.Assignee, values.Pair, values.ProjectName,
           values.FixVersions, values.Components, values.Labels,
           values.StoryPoints, multisprintIssue.EpicLink, epicTitle,
           values.Resolution, values.Reporter,
           Itoa(multisprintIssue.SprintInfo.SprintCount),
           multisprintIssue.SprintInfo.FirstSprint,
           multisprintIssue.SprintInfo.LastSprint,
           multisprintIssue.SprintInfo.AllSprints >>

\* lines 1447-1476: the data row of one result row
DataRow(multisprintIssue, titles, provided, fieldName) ==
    LET issue     == multisprintIssue.Issue
        values    == extractFieldValues(issue, provided, fieldName)
        looked    == MapGet(titles, multisprintIssue.EpicLink)
        epicTitle == IF looked = <<>> THEN <<"No Epic Summary">> ELSE looked
    IN  << values.IssueType, issue.Key, issue.Summary, values.Status,
           values.UpdatedDate, values.CreatedDate, values.ResolvedDate,
           values.Assignee, values.Pair, values.ProjectName,
           values.FixVersions, values.Components, values.StoryPoints,
           multisprintIssue.EpicLink, epicTitle, values.Labels,
           values.Resolution, values.Reporter,
           Itoa(multisprintIssue.SprintInfo.SprintCount),
           multisprintIssue.SprintInfo.FirstSprint,
           multisprintIssue.SprintInfo.LastSprint,
           multisprintIssue.SprintInfo.AllSprints >>

\* PairFound that counts every non-empty Pair value, blank or not
PairFoundUntrimmed(rows, provided, fieldName) ==
    {k \in DOMAIN rows :
        /\ provided /\ fieldName # ""
        /\ extractFieldValues(rows[k].Issue, provided, fieldName).Pair # <<>>}

\* lines 1443-1446: the rows counted as carrying a Pair value
PairFound(rows, provided, fieldName) ==
    {k \in DOMAIN rows :
        /\ provided /\ fieldName # ""
        /\ NonBlank(extractFieldValues(rows[k].Issue, provided, fieldName).Pair)}

\* WriteHeader that inspects the content: an empty file gets a header too
WriteHeaderIfEmpty(f, append) == IF append THEN ~f.exists \/ f.lines = <<>> ELSE TRUE

\* WriteHeader that writes the header on every call
WriteHeaderAlways(f, append) == TRUE

\* lines 1374-1394: whether the header is written
WriteHeader(f, append) == IF append THEN ~f.exists ELSE TRUE

\* FileAfterWrite in which the overwrite mode keeps what the file holds
FileAfterWriteNoTruncate(f, rows, titles, append, provided, fieldName, fault, failAt) ==
    LET opened  == [exists |-> TRUE, lines |-> f.lines]
        hdr     == IF WriteHeader(f, append) THEN <<header>> ELSE <<>>
        n       == IF fault = "row" THEN failAt - 1 ELSE Len(rows)
        data    == [k \in 1..n |-> DataRow(rows[k], titles, provided, fieldName)]
    IN  IF fault = "open" THEN f
        ELSE IF fault = "header" THEN opened
        ELSE [exists |-> TRUE, lines |-> opened.lines \o hdr \o data]

\* The file after a call of writeOutputFile.  fault names the call that
\* fails: "none", "open" (os.OpenFile / os.Create), "header" (the header
\* write) or "row" with failAt the index of the failing row write.  A
\* failing write adds nothing to the file.
FileAfterWrite(f, rows, titles, append, provided, fieldName, fault, failAt) ==
    LET opened  == IF append THEN [exists |-> TRUE, lines |-> f.lines]
                             ELSE [exists |-> TRUE, lines |-> <<>>]
        hdr     == IF WriteHeader(f, append) THEN <<header>> ELSE <<>>
        n       == IF fault = "row" THEN failAt - 1 ELSE Len(rows)
        data    == [k \in 1..n |-> DataRow(rows[k], titles, provided, fieldName)]
    IN  IF fault = "open" THEN f
        ELSE IF fault = "header" THEN opened
        ELSE [exists |-> TRUE, lines |-> opened.lines \o hdr \o data]

\* lines 1429 and 1477: strings.Join(row, "\t") + "\n", the text of a record
RowText(line) == Join(line, <<"\t">>) \o <<"\n">>

RECURSIVE FileText(_)
\* the bytes of the file: its records one after the other
FileText(lines) ==
    IF Len(lines) = 0 THEN <<>> ELSE RowText(Head(lines)) \o FileText(Tail(lines))

(***************************************************************************)
(* The command line.  cmd is the record                                    *)
(*   [from, days, typedFrom, typedDays, pair, append]                      *)
(* from / typedFrom: the value after -fromdate / typed at the first        *)
(*   prompt: [kind |-> "absent"], [kind |-> "blank"], [kind |-> "invalid"] *)
(*   or [kind |-> "date", age |-> h], a yyyy-mm-dd date whose midnight UTC *)
(*   lies h hours in the past (h < 0: in the future);                      *)
(* days / typedDays: the value after -daysprior / typed at the second      *)
(*   prompt: [kind |-> "absent"], [kind |-> "notnumber"] or                *)
(*   [kind |-> "number", n |-> n];                                         *)
(* pair: [kind |-> "absent"], [kind |-> "novalue"] (-pair is the last      *)
(*   argument) or [kind |-> "value", name |-> s];                          *)
(* append: whether -append is present.                                     *)
(***************************************************************************)
PairField == "customfield_10186"

Absent == [kind |-> "absent"]
DateArg(h) == [kind |-> "date", age |-> h]
NumberArg(n) == [kind |-> "number", n |-> n]

\* int(x) of a quotient: truncation towards zero
TruncDiv(a, b) == IF a >= 0 THEN a \div b ELSE -((-a) \div b)

\* fmt.Sprintf("%d", n)
FormatInt(n) == IF n < 0 THEN <<"-">> \o Itoa(-n) ELSE Itoa(n)

\* a project key is the sequence of its characters
projectKey == <<"E", "X", "P", "D">>

\* lines 880-890
buildJQLQuery(key, days) ==
    <<"project = ">> \o key
        \o <<" AND issuetype not in (Epic, Risk, 'Sub-Task') AND Sprint is not EMPTY AND updated >= -">>
        \o FormatInt(days) \o <<"d">>

\* lines 568-609: fromDate, daysPrior, fromDateProvided, daysPriorProvided
getDateAndDaysFromCommandLine(c) ==
    [fromDate          |-> IF c.from.kind \in {"absent", "blank"} THEN Absent ELSE c.from,
     daysPrior         |-> IF c.days.kind = "number" THEN c.days.n ELSE 0,
     fromDateProvided  |-> c.from.kind \in {"invalid", "date"},
     daysPriorProvided |-> c.days.kind = "number"]

\* lines 707-741: fromDate and daysPrior from the two prompts
getDateRangeInteractively(c) ==
    IF c.typedFrom.kind \in {"invalid", "date"}
        THEN [fromDate |-> c.typedFrom, daysPrior |-> 0]
    ELSE IF c.typedDays.kind = "number" /\ c.typedDays.n > 0
        THEN [fromDate |-> Absent, daysPrior |-> c.typedDays.n]
    ELSE [fromDate |-> Absent, daysPrior |-> defaultDaysPrior]

\* DateRange that ignores the from date when a day count is given as well
DateRangeDaysFirst(c) ==
    LET given == getDateAndDaysFromCommandLine(c)
        asked == getDateRangeInteractively(c)
        range == IF ~given.fromDateProvided /\ ~given.daysPriorProvided
                 THEN asked ELSE [fromDate |-> given.fromDate, daysPrior |-> given.daysPrior]
    IN  IF range.fromDate.kind = "invalid" THEN [ok |-> FALSE, daysPrior |-> range.daysPrior]
        ELSE IF range.fromDate.kind = "date" /\ range.daysPrior <= 0
            THEN [ok |-> TRUE, daysPrior |-> TruncDiv(range.fromDate.age, 24)]
        ELSE [ok |-> TRUE,
              daysPrior |-> IF range.daysPrior <= 0 THEN defaultDaysPrior ELSE range.daysPrior]

\* main, lines 1673-1708: the day count, or the fatal error of a from date
\* that is not yyyy-mm-dd
DateRange(c) ==
    LET given == getDateAndDaysFromCommandLine(c)
        asked == getDateRangeInteractively(c)
        range == IF ~given.fromDateProvided /\ ~given.daysPriorProvided
                 THEN asked ELSE [fromDate |-> given.fromDate, daysPrior |-> given.daysPrior]
    IN  IF range.fromDate.kind = "invalid" THEN [ok |-> FALSE, daysPrior |-> range.daysPrior]
        ELSE IF range.fromDate.kind = "date"
            THEN [ok |-> TRUE, daysPrior |-> TruncDiv(range.fromDate.age, 24)]
        ELSE [ok |-> TRUE,
              daysPrior |-> IF range.daysPrior <= 0 THEN defaultDaysPrior ELSE range.daysPrior]

\* getPairFromCommandLine that takes -pair as given even without a value
getPairAlwaysProvided(c) ==
    IF c.pair.kind = "value" THEN [provided |-> TRUE, name |-> c.pair.name]
    ELSE IF c.pair.kind = "novalue" THEN [provided |-> TRUE, name |-> PairField]
    ELSE [provided |-> FALSE, name |-> ""]

\* lines 1517-1529: pairFieldProvided and the returned name
getPairFromCommandLine(c) ==
    IF c.pair.kind = "value" THEN [provided |-> TRUE, name |-> c.pair.name]
    ELSE [provided |-> FALSE, name |-> ""]

\* a command line that gives the configuration (days, append, provided, name)
CmdFor(days, append, provided, name) ==
    [from |-> Absent, days |-> NumberArg(days), typedFrom |-> Absent, typedDays |-> Absent,
     pair |-> IF provided THEN [kind |-> "value", name |-> name] ELSE Absent,
     append |-> append]

(***************************************************************************)
(* What the run finds.  env is the record [token, key, project]:           *)
(* token: the token file, "nopath" (no path given and none typed),          *)
(*   "missing", "unreadable", "empty" (nothing but white space), "nocolon" *)
(*   or "ok";                                                              *)
(* key: the project key given with -project or typed at the prompt, after  *)
(*   ToUpper and TrimSpace, as the sequence of its characters (<<>>: none   *)
(*   given and none typed);                                                *)
(* project: the answer of the project endpoint, "transport", "404",        *)
(*   "status" (another status than 200), "read", "decode", "mismatch" (the *)
(*   body names another key) or "ok".                                      *)
(***************************************************************************)
OkEnv == [token |-> "ok", key |-> projectKey, project |-> "ok"]

\* getAuthToken and readTokenFile return no error
getAuthToken(e) == e.token \in {"ok", "nocolon"}

UpperAndDigits ==
    {"A", "B", "C", "D", "E", "F", "G", "H", "I", "J", "K", "L", "M", "N", "O", "P", "Q",
     "R", "S", "T", "U", "V", "W", "X", "Y", "Z",
     "0", "1", "2", "3", "4", "5", "6", "7", "8", "9"}

\* regexp ^[A-Z0-9]+$
MatchString(key) == Len(key) > 0 /\ \A k \in DOMAIN key : key[k] \in UpperAndDigits

\* validateProject without the comparison of the returned key
validateProjectAnyKey(e) == e.project \in {"ok", "mismatch"}

\* validateProject returns no error
validateProject(e) == e.project = "ok"

\* main, lines 1736-1762: the field-selection list
requiredFields(provided, name) ==
    <<"issuetype", "key", "summary", "status", "updated", "created", "resolutiondate",
      "assignee">>
        \o (IF provided /\ name # "" THEN <<name>> ELSE <<>>)
        \o <<"fixVersions", "components", "customfield_10059", "customfield_10014",
             "labels", "resolution", "customfield_10020", "creator", "project">>

\* the external operations; a search request carries the field list, which
\* the code sends joined by commas
ProjectCall(key) == [op |-> "project", key |-> key]

SearchCall(jql, s, m, fields) ==
    [op |-> "search", jql |-> jql, startAt |-> s, maxResults |-> m, fields |-> fields]

EpicCall(key) == [op |-> "epic", key |-> key]

FileCall == [op |-> "file"]

\* the warnings
EpicWarning(key) == [what |-> "epic", key |-> key]

DateWarning(d) == [what |-> "date", date |-> d]

NoIssuesWarning == [what |-> "noissues"]

\* formatDate, line 1213: no layout accepts the text
FormatFails(d) ==
    /\ ~d.nil /\ ~d.empty
    /\ ~TimeParses(RFC3339, d)
    /\ ~\E k \in DOMAIN formats : TimeParses(formats[k], d)

\* the warnings of one call of writeOutputFile: extractFieldValues runs for
\* every row up to and including the one whose write fails
DateWarnings(rows, fault, failAt) ==
    LET n == IF fault = "none" THEN Len(rows) ELSE IF fault = "row" THEN failAt ELSE 0
    IN  {DateWarning(d) :
            d \in {x \in UNION {{rows[k].Issue.Updated, rows[k].Issue.Created,
                                  rows[k].Issue.ResolutionDate} : k \in 1..n} :
                        FormatFails(x)}}

(***************************************************************************)
(* Inputs                                                                  *)
(***************************************************************************)
Tokens == {"name=", ",", "Sprint 1", "Sprint 2"}

\* legacy sprint strings standing alone: every short token string
LegacyStrings == SeqsUpTo(Tokens, MaxStrLen)

\* legacy sprint strings as array entries
ArrayStrings ==
    { <<"name=", "Sprint 1">>, <<"name=", "Sprint 2">>, <<"Sprint 1">>, <<"name=">>,
      <<"id=7", ",", "name=", "Sprint 1", ",", "state=CLOSED">>,
      <<"name=", ",", "name=", "Sprint 2">> }

MapName(n)  == [ekind |-> "mapname", val |-> n]
LegacyStr(s) == [ekind |-> "str", val |-> s]

Entries ==
    {MapName(<<"Sprint 1">>), MapName(<<"Sprint 2">>), MapName(<<>>)}
        \cup {[ekind |-> k, val |-> <<>>] : k \in {"mapnonstr", "mapnoname", "other"}}
        \cup {LegacyStr(s) : s \in ArrayStrings}

SprintNull      == [kind |-> "null"]
SprintOther     == [kind |-> "other"]
SprintArray(v)  == [kind |-> "array", elems |-> v]
SprintStrings(v) == [kind |-> "strings", strs |-> v]
SprintString(s) == [kind |-> "string", str |-> s]

\* what the issue decoder can produce for the sprint field
DecodedSprintFields ==
    {SprintNull, SprintOther}
        \cup {SprintArray(v) : v \in SeqsUpTo(Entries, MaxEntries)}
        \cup {SprintString(s) : s \in LegacyStrings}

\* every value parseSprintField has a branch for
SprintFields ==
    DecodedSprintFields \cup {SprintStrings(v) : v \in SeqsUpTo(ArrayStrings, MaxEntries)}

S1 == MapName(<<"Sprint 1">>)
S2 == MapName(<<"Sprint 2">>)

RecentRFC == DateString(TRUE, TRUE, ".000", "+hh:mm", <<"2025-03-09">>, 30)
EdgeRFC   == DateString(TRUE, TRUE, "", "Z", <<"2025-03-08">>, 48)
OldRFC    == DateString(TRUE, TRUE, "", "Z", <<"2025-03-07">>, 80)
OldJira   == DateString(TRUE, TRUE, ".000", "+hhmm", <<"2025-03-07">>, 80)
OldDay    == DateString(TRUE, FALSE, "", "", <<"2025-03-07">>, 85)
Garbage   == DateString(FALSE, FALSE, "", "", <<>>, 0)

EpicNull     == [kind |-> "null", str |-> <<>>]
EpicOther    == [kind |-> "other", str |-> <<>>]
EpicStr(s)   == [kind |-> "string", str |-> s]

MkIssue(key, resolved, sprint, epic, raw) ==
    [Key |-> <<key>>, IssueType |-> <<"Story">>, Status |-> <<"In Progress">>,
     Summary |-> <<"Summary of", " ", key>>,
     Updated |-> RecentRFC, Created |-> OldJira, ResolutionDate |-> resolved,
     Assignee |-> IF resolved.nil THEN Nil ELSE Ptr(<<"Ann">>),
     Creator |-> Ptr(<<"Bob">>), ProjectName |-> <<"Expedition">>,
     FixVersions |-> << <<"1.0">>, <<"1.1">> >>, Components |-> <<>>,
     Labels |-> << <<"spill">> >>,
     Resolution |-> IF resolved.nil THEN Nil ELSE Ptr(<<"Done">>),
     StoryPoints |-> IF resolved.nil THEN Nil ELSE Ptr(<<"5">>),
     SprintField |-> sprint, EpicLinkField |-> epic,
     Raw |-> [n \in {PairField, "labels", "customfield_10002"} |-> raw]]

Catalogue ==
    { MkIssue("EXPD-1", NilDate, SprintArray(<<S1, S2>>), EpicStr(<<"EXPD-90">>),
              [kind |-> "strarr", names |-> << <<"Alice">>, <<"Bob">> >>]),
      MkIssue("EXPD-2", OldRFC, SprintArray(<<S1, S2, S1>>), EpicStr(<<"EXPD-91">>),
              [kind |-> "obj", names |-> << <<>> >>]),
      MkIssue("EXPD-3", OldJira, SprintArray(<<S2, S1>>), EpicStr(<<"EXPD-90">>),
              [kind |-> "str", names |-> << <<"Carol">> >>]),
      MkIssue("EXPD-4", EdgeRFC,
              SprintArray(<<LegacyStr(<<"name=", "Sprint 1", ",", "id=3">>), S2>>),
              EpicStr(<<>>), AbsentRaw),
      MkIssue("EXPD-5", RecentRFC,
              SprintArray(<<S1, LegacyStr(<<"name=", "Sprint 1">>)>>),
              EpicStr(<<"EXPD-91">>), AbsentRaw),
      MkIssue("EXPD-6", Garbage, SprintArray(<<S2, S1>>), EpicOther,
              [kind |-> "objarr", names |-> << <<"Dan">> >>]),
      MkIssue("EXPD-7", NilDate, SprintNull, EpicStr(<<"EXPD-91">>), AbsentRaw),
      MkIssue("EXPD-8", NilDate, SprintArray(<<>>), EpicNull, AbsentRaw),
      MkIssue("EXPD-9", NilDate, SprintArray(<<S2>>), EpicStr(<<"EXPD-90">>), AbsentRaw) }

DaysPriorValues == {1, 2}

PairConfigs ==
    { [provided |-> FALSE, name |-> ""],
      [provided |-> TRUE, name |-> PairField] }

OldLine == [k \in 1..22 |-> IF k = 19 THEN <<"2">> ELSE <<"old">>]

FilesBefore ==
    { [exists |-> FALSE, lines |-> <<>>],
      [exists |-> TRUE, lines |-> <<header, OldLine>>] }

FetchFailures == {"transport", "read", "status", "decode"}

\* the answers of the search endpoint to one page request
Responses ==
    {[kind |-> k, Issues |-> <<>>, Total |-> 0] : k \in FetchFailures}
        \cup {[kind |-> "ok", Issues |-> page, Total |-> t] :
                page \in SeqsUpTo(Catalogue, MaxPageLen),
                t \in {0, batchSize, batchSize + 1, MaxTotal}}

\* the answers grouped by the number of issues in the page
ResponsesOfLen == [n \in 0..MaxPageLen |-> {r \in Responses : Len(r.Issues) = n}]

(***************************************************************************)
(* fetchAllJiraIssues: one iteration of the pagination loop, and what main *)
(* does when the function returns (lines 1769-1778)                        *)
(***************************************************************************)
\* FetchStep in which a failed page request ends the loop and the pages
\* fetched so far are returned
FetchStepPartial(resp) ==
    /\ pc = "fetch"
    /\ requests' = Append(requests, startAt)
    /\ calls' = Append(calls, SearchCall(jqlQuery, startAt, batchSize,
                                         requiredFields(pairFieldProvided, pairFieldName)))
    /\ batchCount' = batchCount + 1
    /\ IF resp.kind # "ok"
       THEN /\ issues' = allIssues
            /\ fetchErr' = resp.kind
            /\ UNCHANGED <<startAt, allIssues>>
            /\ IF Len(allIssues) = 0
               THEN pc' = "exit1" /\ exitCode' = 1
               ELSE pc' = "process" /\ UNCHANGED exitCode
       ELSE /\ allIssues' = allIssues \o resp.Issues
            /\ UNCHANGED fetchErr
            /\ IF startAt + batchSize >= resp.Total
               THEN /\ issues' = allIssues'
                    /\ UNCHANGED startAt
                    /\ IF Len(allIssues') = 0
                       THEN pc' = "done" /\ exitCode' = 0
                       ELSE pc' = "process" /\ UNCHANGED exitCode
               ELSE /\ startAt' = startAt + batchSize
                    /\ UNCHANGED <<pc, exitCode, issues>>
    \* main, lines 1775-1778
    /\ log' = IF resp.kind = "ok" /\ startAt + batchSize >= resp.Total /\ Len(allIssues') = 0
              THEN log \cup {NoIssuesWarning} ELSE log
    /\ UNCHANGED <<server, idx, multisprintIssues, epicKeysToLookup, epicKeySet>>
    /\ UNCHANGED <<confVars, epicVars, fileVars, parseVars>>

\* FetchStep that sends a failed request again, up to three requests
FetchStepRetry(resp) ==
    /\ pc = "fetch"
    /\ requests' = Append(requests, startAt)
    /\ calls' = Append(calls, SearchCall(jqlQuery, startAt, batchSize,
                                         requiredFields(pairFieldProvided, pairFieldName)))
    /\ batchCount' = batchCount + 1
    /\ IF resp.kind # "ok"
       THEN /\ issues' = <<>>
            /\ fetchErr' = resp.kind
            /\ UNCHANGED <<startAt, allIssues>>
            /\ IF batchCount' < 3
               THEN UNCHANGED <<pc, exitCode>>
               ELSE pc' = "exit1" /\ exitCode' = 1
       ELSE /\ allIssues' = allIssues \o resp.Issues
            /\ fetchErr' = "none"
            /\ IF startAt + batchSize >= resp.Total
               THEN /\ issues' = allIssues'
                    /\ UNCHANGED startAt
                    /\ IF Len(allIssues') = 0
                       THEN pc' = "done" /\ exitCode' = 0
                       ELSE pc' = "process" /\ UNCHANGED exitCode
               ELSE /\ startAt' = startAt + batchSize
                    /\ UNCHANGED <<pc, exitCode, issues>>
    \* main, lines 1775-1778
    /\ log' = IF resp.kind = "ok" /\ startAt + batchSize >= resp.Total /\ Len(allIssues') = 0
              THEN log \cup {NoIssuesWarning} ELSE log
    /\ UNCHANGED <<server, idx, multisprintIssues, epicKeysToLookup, epicKeySet>>
    /\ UNCHANGED <<confVars, epicVars, fileVars, parseVars>>

\* FetchStep after which main calls the writer also when no issue was found
FetchStepWriteEmpty(resp) ==
    /\ pc = "fetch"
    /\ requests' = Append(requests, startAt)
    /\ calls' = Append(calls, SearchCall(jqlQuery, startAt, batchSize,
                                         requiredFields(pairFieldProvided, pairFieldName)))
    /\ batchCount' = batchCount + 1
    /\ IF resp.kind # "ok"
       THEN \* return nil, err; main logs the error and exits
            /\ pc' = "exit1"
            /\ exitCode' = 1
            /\ issues' = <<>>
            /\ fetchErr' = resp.kind
            /\ UNCHANGED <<startAt, allIssues>>
       ELSE /\ allIssues' = allIssues \o resp.Issues
            /\ UNCHANGED fetchErr
            /\ IF startAt + batchSize >= resp.Total
               THEN \* break; return allIssues, nil
                    /\ issues' = allIssues'
                    /\ UNCHANGED startAt
                    /\ IF Len(allIssues') = 0
                       THEN pc' = "write" /\ UNCHANGED exitCode
                       ELSE pc' = "process" /\ UNCHANGED exitCode
               ELSE /\ startAt' = startAt + batchSize
                    /\ UNCHANGED <<pc, exitCode, issues>>
    \* main, lines 1775-1778
    /\ log' = IF resp.kind = "ok" /\ startAt + batchSize >= resp.Total /\ Len(allIssues') = 0
              THEN log \cup {NoIssuesWarning} ELSE log
    /\ UNCHANGED <<server, idx, multisprintIssues, epicKeysToLookup, epicKeySet>>
    /\ UNCHANGED <<confVars, epicVars, fileVars, parseVars>>

\* FetchStep that stops only when the next offset is beyond the total
FetchStepBeyond(resp) ==
    /\ pc = "fetch"
    /\ requests' = Append(requests, startAt)
    /\ calls' = Append(calls, SearchCall(jqlQuery, startAt, batchSize,
                                         requiredFields(pairFieldProvided, pairFieldName)))
    /\ batchCount' = batchCount + 1
    /\ IF resp.kind # "ok"
       THEN \* return nil, err; main logs the error and exits
            /\ pc' = "exit1"
            /\ exitCode' = 1
            /\ issues' = <<>>
            /\ fetchErr' = resp.kind
            /\ UNCHANGED <<startAt, allIssues>>
       ELSE /\ allIssues' = allIssues \o resp.Issues
            /\ UNCHANGED fetchErr
            /\ IF startAt + batchSize > resp.Total
               THEN \* break; return allIssues, nil
                    /\ issues' = allIssues'
                    /\ UNCHANGED startAt
                    /\ IF Len(allIssues') = 0
                       THEN pc' = "done" /\ exitCode' = 0
                       ELSE pc' = "process" /\ UNCHANGED exitCode
               ELSE /\ startAt' = startAt + batchSize
                    /\ UNCHANGED <<pc, exitCode, issues>>
    \* main, lines 1775-1778
    /\ log' = IF resp.kind = "ok" /\ startAt + batchSize > resp.Total /\ Len(allIssues') = 0
              THEN log \cup {NoIssuesWarning} ELSE log
    /\ UNCHANGED <<server, idx, multisprintIssues, epicKeysToLookup, epicKeySet>>
    /\ UNCHANGED <<confVars, epicVars, fileVars, parseVars>>

FetchStep(resp) ==
    /\ pc = "fetch"
    /\ requests' = Append(requests, startAt)
    /\ calls' = Append(calls, SearchCall(jqlQuery, startAt, batchSize,
                                         requiredFields(pairFieldProvided, pairFieldName)))
    /\ batchCount' = batchCount + 1
    /\ IF resp.kind # "ok"
       THEN \* return nil, err; main logs the error and exits
            /\ pc' = "exit1"
            /\ exitCode' = 1
            /\ issues' = <<>>
            /\ fetchErr' = resp.kind
            /\ UNCHANGED <<startAt, allIssues>>
       ELSE /\ allIssues' = allIssues \o resp.Issues
            /\ UNCHANGED fetchErr
            /\ IF startAt + batchSize >= resp.Total
               THEN \* break; return allIssues, nil
                    /\ issues' = allIssues'
                    /\ UNCHANGED startAt
                    /\ IF Len(allIssues') = 0
                       THEN pc' = "done" /\ exitCode' = 0
                       ELSE pc' = "process" /\ UNCHANGED exitCode
               ELSE /\ startAt' = startAt + batchSize
                    /\ UNCHANGED <<pc, exitCode, issues>>
    \* main, lines 1775-1778
    /\ log' = IF resp.kind = "ok" /\ startAt + batchSize >= resp.Total /\ Len(allIssues') = 0
              THEN log \cup {NoIssuesWarning} ELSE log
    /\ UNCHANGED <<server, idx, multisprintIssues, epicKeysToLookup, epicKeySet>>
    /\ UNCHANGED <<confVars, epicVars, fileVars, parseVars>>

\* a page request answered by the search endpoint
FetchPage ==
    \E n \in 0..MaxPageLen :
        /\ Len(allIssues) + n <= MaxIssues
        /\ \E resp \in ResponsesOfLen[n] : FetchStep(resp)

(***************************************************************************)
(* main, lines 1787-1904: one iteration of the issue loop, followed after  *)
(* the last issue by the choice between epic lookups and the writer        *)
(***************************************************************************)
\* lines 1864-1876: the result row of an issue
RowOf(issue) ==
    LET sprintInfo == parseSprintField(issue.SprintField)
    IN  [Issue |-> issue,
         WorkedSprints |-> sprintInfo.SprintCount,
         EpicLink |-> getEpicLink(issue.EpicLinkField),
         ResolvedDate |->
             IF ~issue.ResolutionDate.nil /\ TimeParses(RFC3339, issue.ResolutionDate)
             THEN [nil |-> FALSE, age |-> issue.ResolutionDate.age]
             ELSE [nil |-> TRUE, age |-> 0],
         SprintInfo |-> sprintInfo]

\* Qualifies with SprintCount > 0 in place of SprintCount > 1
QualifiesAnySprint(issue, days) ==
    /\ ~ResolvedTooLongAgo(issue, days)
    /\ parseSprintField(issue.SprintField).SprintCount > 0

\* lines 1792-1800 and 1856-1860: the issue becomes a result row
Qualifies(issue, days) ==
    /\ ~ResolvedTooLongAgo(issue, days)
    /\ parseSprintField(issue.SprintField).SprintCount > 1

\* AddRow that puts the new row in front
AddRowFront(rows, row) == <<row>> \o rows

\* line 1878
AddRow(rows, row) == Append(rows, row)

\* CollectEpicKey without the epicKeySet test
CollectEpicKeyNoDedup(keys, keySet, epicLink) ==
    IF epicLink # NoEpic
    THEN [list |-> Append(keys, epicLink), set |-> keySet \cup {epicLink}]
    ELSE [list |-> keys, set |-> keySet]

\* lines 1880-1884: the key list and key set after a result row with epicLink
CollectEpicKey(keys, keySet, epicLink) ==
    IF epicLink # NoEpic /\ epicLink \notin keySet
    THEN [list |-> Append(keys, epicLink), set |-> keySet \cup {epicLink}]
    ELSE [list |-> keys, set |-> keySet]

\* ProcessIssue that goes to the writer without the epic lookups
ProcessIssueSkipEpics ==
    /\ pc = "process"
    /\ idx < Len(issues)
    /\ LET issue    == issues[idx + 1]
           keep     == Qualifies(issue, daysPrior)
           row      == RowOf(issue)
           epics    == CollectEpicKey(epicKeysToLookup, epicKeySet, row.EpicLink)
       IN  /\ multisprintIssues' = IF keep THEN AddRow(multisprintIssues, row)
                                           ELSE multisprintIssues
           /\ epicKeySet' = IF keep THEN epics.set ELSE epicKeySet
           /\ epicKeysToLookup' = IF keep THEN epics.list ELSE epicKeysToLookup
           /\ idx' = idx + 1
           /\ pc' = IF idx' < Len(issues) THEN "process" ELSE "write"
    /\ UNCHANGED <<exitCode, issues, confVars, fetchVars, epicVars, fileVars, parseVars>>
    /\ UNCHANGED traceVars

ProcessIssue ==
    /\ pc = "process"
    /\ idx < Len(issues)
    /\ LET issue    == issues[idx + 1]
           keep     == Qualifies(issue, daysPrior)
           row      == RowOf(issue)
           epics    == CollectEpicKey(epicKeysToLookup, epicKeySet, row.EpicLink)
       IN  /\ multisprintIssues' = IF keep THEN AddRow(multisprintIssues, row)
                                           ELSE multisprintIssues
           /\ epicKeySet' = IF keep THEN epics.set ELSE epicKeySet
           /\ epicKeysToLookup' = IF keep THEN epics.list ELSE epicKeysToLookup
           /\ idx' = idx + 1
           /\ pc' = IF idx' < Len(issues) THEN "process"
                    ELSE IF Len(epicKeysToLookup') > 0 THEN "epics" ELSE "write"
    /\ UNCHANGED <<exitCode, issues, confVars, fetchVars, epicVars, fileVars, parseVars>>
    /\ UNCHANGED traceVars

(***************************************************************************)
(* fetchEpicTitles: one iteration of the lookup loop                       *)
(***************************************************************************)
LookupFailed == <<"Epic Summary Lookup Failed">>
NoEpicTitle  == <<"No Epic Title">>

EpicFailures == {"request", "network", "read", "status", "decode"}
EpicSummaries == {<<>>, <<"Title of the epic">>}

\* EpicTitleFor that records an empty summary as it is
EpicTitleForAsIs(outcome, summary) ==
    IF outcome # "ok" THEN LookupFailed ELSE summary

\* the value recorded for a key given the outcome of its lookup
EpicTitleFor(outcome, summary) ==
    IF outcome # "ok" THEN LookupFailed
    ELSE IF summary # <<>> THEN summary ELSE NoEpicTitle

\* EpicStep in which a failed lookup ends the batch
EpicStepAbort(keys, outcome, summary) ==
    /\ pc = "epics"
    /\ Len(lookups) < Len(keys)
    /\ LET epicKey == keys[Len(lookups) + 1]
       IN  /\ lookups' = Append(lookups, [key |-> epicKey, outcome |-> outcome,
                                          summary |-> summary])
           /\ epicTitles' = MapPut(epicTitles, epicKey, EpicTitleFor(outcome, summary))
           /\ calls' = Append(calls, EpicCall(epicKey))
           /\ log' = IF outcome # "ok" THEN log \cup {EpicWarning(epicKey)} ELSE log
    /\ pc' = IF Len(lookups') < Len(keys) /\ outcome = "ok" THEN "epics" ELSE "write"
    /\ UNCHANGED <<exitCode, confVars, fetchVars, procVars, fileVars, parseVars>>

EpicStep(keys, outcome, summary) ==
    /\ pc = "epics"
    /\ Len(lookups) < Len(keys)
    /\ LET epicKey == keys[Len(lookups) + 1]
       IN  /\ lookups' = Append(lookups, [key |-> epicKey, outcome |-> outcome,
                                          summary |-> summary])
           /\ epicTitles' = MapPut(epicTitles, epicKey, EpicTitleFor(outcome, summary))
           /\ calls' = Append(calls, EpicCall(epicKey))
           /\ log' = IF outcome # "ok" THEN log \cup {EpicWarning(epicKey)} ELSE log
    /\ pc' = IF Len(lookups') < Len(keys) THEN "epics" ELSE "write"
    /\ UNCHANGED <<exitCode, confVars, fetchVars, procVars, fileVars, parseVars>>

\* the answers of the issue endpoint to one lookup
EpicAnswers ==
    {[outcome |-> o, summary |-> <<>>] : o \in EpicFailures}
        \cup {[outcome |-> "ok", summary |-> t] : t \in EpicSummaries}

\* In a pipeline run the five failures, which the code handles alike, are
\* represented by the non-200 status.
LookupEpic ==
    \E a \in {b \in EpicAnswers : b.outcome \in {"ok", "status"}} :
        EpicStep(epicKeysToLookup, a.outcome, a.summary)

(***************************************************************************)
(* main, lines 1906-1930: the call of writeOutputFile and the end of the   *)
(* run                                                                     *)
(***************************************************************************)
WriteStep(rows, titles, append, fault, failAt) ==
    /\ file' = FileAfterWrite(file, rows, titles, append,
                              pairFieldProvided, pairFieldName, fault, failAt)
    /\ pairFieldFoundCount' =
            IF fault = "none"
            THEN Cardinality(PairFound(rows, pairFieldProvided, pairFieldName))
            ELSE 0
    /\ runsOk' = (runsOk /\ fault = "none")
    /\ log' = log \cup DateWarnings(rows, fault, failAt)

WriteFaults(rows, f, append) ==
    {[fault |-> "none", failAt |-> 0], [fault |-> "open", failAt |-> 0]}
        \cup (IF WriteHeader(f, append) THEN {[fault |-> "header", failAt |-> 0]} ELSE {})
        \cup {[fault |-> "row", failAt |-> k] : k \in 1..Len(rows)}

WriteOutput ==
    /\ pc = "write"
    /\ \E w \in WriteFaults(multisprintIssues, file, appendMode) :
          /\ WriteStep(multisprintIssues, epicTitles, appendMode, w.fault, w.failAt)
          /\ IF w.fault = "none"
             THEN pc' = "done" /\ exitCode' = 0
             ELSE pc' = "exit1" /\ exitCode' = 1
          \* lines 1917-1921
          /\ pairWarned' = (/\ w.fault = "none"
                            /\ pairFieldProvided /\ pairFieldName # ""
                            /\ pairFieldFoundCount' = 0)
    /\ calls' = Append(calls, FileCall)
    /\ UNCHANGED fileBefore
    /\ UNCHANGED <<confVars, fetchVars, procVars, epicVars, parseVars>>

(***************************************************************************)
(* One run of the program from the first search request on                 *)
(***************************************************************************)
NoInfo == [SprintCount |-> -1, SprintNames |-> <<>>, FirstSprint |-> <<>>,
           LastSprint |-> <<>>, AllSprints |-> <<>>]

InitRun ==
    /\ exitCode = -1
    /\ startAt = 0 /\ batchCount = 0 /\ allIssues = <<>> /\ requests = <<>>
    /\ fetchErr = "none"
    /\ issues = <<>> /\ idx = 0 /\ multisprintIssues = <<>>
    /\ epicKeysToLookup = <<>> /\ epicKeySet = {}
    /\ epicTitles = EmptyMap /\ lookups = <<>>
    /\ pairFieldFoundCount = 0 /\ pairWarned = FALSE /\ runsOk = TRUE

\* the run has passed the setup: the token was read and the project found
InitRest ==
    /\ InitRun
    /\ cmd = CmdFor(daysPrior, appendMode, pairFieldProvided, pairFieldName)
    /\ env = OkEnv
    /\ jqlQuery = buildJQLQuery(projectKey, daysPrior)
    /\ calls = <<ProjectCall(projectKey)>>
    /\ log = {}

Init ==
    /\ pc = "fetch"
    /\ daysPrior \in DaysPriorValues
    /\ appendMode \in BOOLEAN
    /\ \E c \in PairConfigs : pairFieldProvided = c.provided /\ pairFieldName = c.name
    /\ file \in FilesBefore
    /\ fileBefore = file
    /\ server = [N |-> 0, cap |-> 0]
    /\ sprintField = SprintNull /\ info = NoInfo
    /\ InitRest

Next == FetchPage \/ ProcessIssue \/ LookupEpic \/ WriteOutput

Spec == Init /\ [][Next]_vars

(***************************************************************************)
(* parseSprintField applied to one input                                   *)
(***************************************************************************)
InitIdle ==
    /\ daysPrior = 1 /\ appendMode = FALSE
    /\ pairFieldProvided = FALSE /\ pairFieldName = ""
    /\ file = [exists |-> FALSE, lines |-> <<>>]
    /\ fileBefore = file
    /\ server = [N |-> 0, cap |-> 0]
    /\ InitRest

InitParse ==
    /\ pc = "parse"
    /\ sprintField \in SprintFields
    /\ info = NoInfo
    /\ InitIdle

Parse ==
    /\ pc = "parse"
    /\ info' = parseSprintField(sprintField)
    /\ pc' = "parsed"
    /\ UNCHANGED <<exitCode, sprintField, confVars, fetchVars, procVars, epicVars, fileVars>>
    /\ UNCHANGED traceVars

NextParse == Parse

SpecParse == InitParse /\ [][NextParse]_vars

(***************************************************************************)
(* fetchAllJiraIssues against a search server that holds the issues 1..N   *)
(* and returns at most cap issues per page                                 *)
(***************************************************************************)
ServerCaps == {1, 50, batchSize}

Min(a, b) == IF a <= b THEN a ELSE b

\* the page for ?startAt=s&maxResults=m
ServerResponse(srv, s, m) ==
    LET last == Min(s + Min(m, srv.cap), srv.N)
    IN  [kind |-> "ok", Issues |-> [k \in 1..(last - s) |-> s + k], Total |-> srv.N]

InitFetch ==
    /\ pc = "fetch"
    /\ server \in [N : 0..MaxN, cap : ServerCaps]
    /\ daysPrior = 1 /\ appendMode = FALSE
    /\ pairFieldProvided = FALSE /\ pairFieldName = ""
    /\ file = [exists |-> FALSE, lines |-> <<>>]
    /\ fileBefore = file
    /\ sprintField = SprintNull /\ info = NoInfo
    /\ InitRest

FetchFromServer == FetchStep(ServerResponse(server, startAt, batchSize))

NextFetch == FetchFromServer

SpecFetch == InitFetch /\ [][NextFetch]_vars

(***************************************************************************)
(* fetchEpicTitles applied to a list of unique keys                        *)
(***************************************************************************)
EpicKeys == {<<"EXPD-90">>, <<"EXPD-91">>, <<"EXPD-92">>}

UniqueLists(S) ==
    {l \in SeqsUpTo(S, Cardinality(S)) : \A a, b \in DOMAIN l : a # b => l[a] # l[b]}

InitEpics ==
    /\ epicKeysToLookup \in UniqueLists(EpicKeys)
    /\ epicKeySet = Range(epicKeysToLookup)
    \* an empty list returns the empty map at once (lines 1106-1108)
    /\ pc = IF Len(epicKeysToLookup) = 0 THEN "write" ELSE "epics"
    /\ exitCode = -1
    /\ daysPrior = 1 /\ appendMode = FALSE
    /\ pairFieldProvided = FALSE /\ pairFieldName = ""
    /\ file = [exists |-> FALSE, lines |-> <<>>]
    /\ fileBefore = file
    /\ server = [N |-> 0, cap |-> 0]
    /\ sprintField = SprintNull /\ info = NoInfo
    /\ startAt = 0 /\ batchCount = 0 /\ allIssues = <<>> /\ requests = <<>>
    /\ fetchErr = "none"
    /\ issues = <<>> /\ idx = 0 /\ multisprintIssues = <<>>
    /\ epicTitles = EmptyMap /\ lookups = <<>>
    /\ pairFieldFoundCount = 0 /\ pairWarned = FALSE /\ runsOk = TRUE
    /\ cmd = CmdFor(daysPrior, appendMode, pairFieldProvided, pairFieldName)
    /\ env = OkEnv
    /\ jqlQuery = buildJQLQuery(projectKey, daysPrior)
    /\ calls = <<ProjectCall(projectKey)>>
    /\ log = {}

LookupAnyEpic ==
    \E a \in EpicAnswers : EpicStep(epicKeysToLookup, a.outcome, a.summary)

NextEpics == LookupAnyEpic

SpecEpics == InitEpics /\ [][NextEpics]_vars

(***************************************************************************)
(* Successive calls of writeOutputFile on one path that does not exist at  *)
(* first (one call per run of the program)                                 *)
(***************************************************************************)
WriterRows ==
    {RowOf(i) : i \in {c \in Catalogue : c.Key \in {<<"EXPD-1">>, <<"EXPD-6">>}}}

WriterTitles == [k \in {<<"EXPD-90">>} |-> <<"Title of the epic">>]

InitWrite ==
    /\ pc = "writer"
    /\ daysPrior = 1 /\ appendMode = FALSE
    /\ \E c \in PairConfigs : pairFieldProvided = c.provided /\ pairFieldName = c.name
    /\ file = [exists |-> FALSE, lines |-> <<>>]
    /\ fileBefore = file
    /\ server = [N |-> 0, cap |-> 0]
    /\ sprintField = SprintNull /\ info = NoInfo
    /\ InitRest

WriterCall(ok) ==
    /\ pc = "writer"
    /\ \E append \in BOOLEAN, rows \in SeqsUpTo(WriterRows, MaxRows) :
          /\ Len(file.lines) + Len(rows) + 1 <= MaxLines
          /\ \E w \in {x \in WriteFaults(rows, file, append) : (x.fault = "none") = ok} :
                WriteStep(rows, WriterTitles, append, w.fault, w.failAt)
          /\ appendMode' = append
          /\ multisprintIssues' = rows
    /\ epicTitles' = WriterTitles
    /\ fileBefore' = file
    /\ UNCHANGED pairWarned
    /\ UNCHANGED <<pc, exitCode, cmd, env, jqlQuery, daysPrior, pairFieldProvided, pairFieldName>>
    /\ UNCHANGED <<fetchVars, issues, idx, epicKeysToLookup, epicKeySet, lookups, parseVars>>
    /\ UNCHANGED calls

WriterRun == WriterCall(TRUE)

WriterRunFails == WriterCall(FALSE)

NextWrite == WriterRun \/ WriterRunFails

SpecWrite == InitWrite /\ [][NextWrite]_vars

(***************************************************************************)
(* Successive calls of writeOutputFile on a path in any starting condition: *)
(* absent, present with zero bytes, or holding a header and a data row      *)
(***************************************************************************)
FilesAtStart == FilesBefore \cup {[exists |-> TRUE, lines |-> <<>>]}

InitWriteAny ==
    /\ pc = "writer"
    /\ daysPrior = 1 /\ appendMode = FALSE
    /\ \E c \in PairConfigs : pairFieldProvided = c.provided /\ pairFieldName = c.name
    /\ file \in FilesAtStart
    /\ fileBefore = file
    /\ server = [N |-> 0, cap |-> 0]
    /\ sprintField = SprintNull /\ info = NoInfo
    /\ InitRest

SpecWriteAny == InitWriteAny /\ [][NextWrite]_vars

(***************************************************************************)
(* One call of writeOutputFile on a path that does not exist, with rows     *)
(* whose text fields may hold a tab or a line break                         *)
(***************************************************************************)
TabIssue ==
    [MkIssue("EXPD-10", NilDate, SprintArray(<<S1, S2>>), EpicStr(<<"EXPD-90">>), AbsentRaw)
        EXCEPT !.Summary = <<"Fix", "\t", "parser">>]

NewlineIssue ==
    [MkIssue("EXPD-11", NilDate, SprintArray(<<S1, S2>>), EpicNull, AbsentRaw)
        EXCEPT !.Summary = <<"Line one", "\n", "line two">>]

RoundTripRows ==
    {RowOf(i) : i \in {c \in Catalogue : c.Key \in {<<"EXPD-1">>, <<"EXPD-3">>, <<"EXPD-6">>}}
                        \cup {TabIssue, NewlineIssue}}

WriteNewFile ==
    /\ pc = "writer"
    /\ ~file.exists
    /\ \E append \in BOOLEAN, rows \in SeqsUpTo(RoundTripRows, MaxRows) :
          /\ WriteStep(rows, WriterTitles, append, "none", 0)
          /\ appendMode' = append
          /\ multisprintIssues' = rows
    /\ epicTitles' = WriterTitles
    /\ fileBefore' = file
    /\ UNCHANGED pairWarned
    /\ pc' = "written"
    /\ UNCHANGED <<exitCode, cmd, env, jqlQuery, daysPrior, pairFieldProvided, pairFieldName>>
    /\ UNCHANGED <<fetchVars, issues, idx, epicKeysToLookup, epicKeySet, lookups, parseVars>>
    /\ UNCHANGED calls

NextRoundTrip == WriteNewFile

SpecRoundTrip == InitWrite /\ [][NextRoundTrip]_vars

(***************************************************************************)
(* main, lines 1673-1733: the date range, the append and pair switches and  *)
(* the filter expression, followed by one search page of one issue and its  *)
(* processing                                                              *)
(***************************************************************************)
FromAges == {-30, -10, 0, 23, 24, 47, 48, 250}

FromArgs == {Absent, [kind |-> "blank"], [kind |-> "invalid"]} \cup {DateArg(h) : h \in FromAges}

DaysArgs == {Absent, [kind |-> "notnumber"]} \cup {NumberArg(n) : n \in {-1, 0, 1, 2, 5}}

TypedFrom == {[kind |-> "blank"], [kind |-> "invalid"], DateArg(47), DateArg(48)}

TypedDays == {[kind |-> "blank"], [kind |-> "notnumber"], NumberArg(0), NumberArg(2)}

PairArgs ==
    {Absent, [kind |-> "novalue"]}
        \cup {[kind |-> "value", name |-> n] : n \in {PairField, "", "labels", "customfield_10002"}}

\* the prompts appear only when neither -fromdate nor -daysprior gave a value
CommandLines ==
    {c \in [from : FromArgs, days : DaysArgs, typedFrom : TypedFrom \cup {Absent},
            typedDays : TypedDays \cup {Absent}, pair : {Absent, [kind |-> "novalue"]},
            append : BOOLEAN] :
        IF c.from.kind \in {"absent", "blank"} /\ c.days.kind \in {"absent", "notnumber"}
        THEN c.typedFrom # Absent /\ c.typedDays # Absent
        ELSE c.typedFrom = Absent /\ c.typedDays = Absent}

\* at most one thing is wrong with the token file, the key and the project
Envs ==
    {OkEnv}
        \cup {[OkEnv EXCEPT !.token = t] :
                t \in {"nopath", "missing", "unreadable", "empty", "nocolon"}}
        \cup {[OkEnv EXCEPT !.key = k] :
                k \in {<<>>, <<"E", "X", "-", "1">>, <<"E", " ", "X">>, <<"E", "X", "9">>}}
        \cup {[OkEnv EXCEPT !.project = a] :
                a \in {"transport", "404", "status", "read", "decode", "mismatch"}}

InitSetup ==
    /\ pc = "setup"
    /\ cmd \in CommandLines
    /\ jqlQuery = <<>>
    /\ daysPrior = 0 /\ appendMode = FALSE
    /\ pairFieldProvided = FALSE /\ pairFieldName = ""
    /\ file = [exists |-> FALSE, lines |-> <<>>]
    /\ fileBefore = file
    /\ server = [N |-> 0, cap |-> 0]
    /\ sprintField = SprintNull /\ info = NoInfo
    /\ env \in Envs
    /\ calls = <<>> /\ log = {}
    /\ InitRun

Setup ==
    /\ pc = "setup"
    /\ LET range == DateRange(cmd)
           pair  == getPairFromCommandLine(cmd)
       IN  IF ~getAuthToken(env) \/ env.key = <<>> \/ ~MatchString(env.key) \/ ~range.ok
           THEN /\ pc' = "exit1" /\ exitCode' = 1
                /\ UNCHANGED <<jqlQuery, daysPrior, appendMode, pairFieldProvided,
                               pairFieldName, calls>>
           ELSE /\ daysPrior' = range.daysPrior
                /\ appendMode' = cmd.append
                /\ pairFieldProvided' = pair.provided
                /\ pairFieldName' = pair.name
                /\ calls' = Append(calls, ProjectCall(env.key))
                /\ IF ~validateProject(env)
                   THEN pc' = "exit1" /\ exitCode' = 1 /\ UNCHANGED jqlQuery
                   ELSE /\ pc' = "fetch" /\ UNCHANGED exitCode
                        /\ jqlQuery' = buildJQLQuery(env.key, range.daysPrior)
    /\ UNCHANGED <<cmd, env, fetchVars, procVars, epicVars, fileVars, parseVars, log>>

\* a search answer holding the one issue resolved 80 or 48 hours ago
FetchOneIssue ==
    \E i \in {c \in Catalogue : c.Key \in {<<"EXPD-2">>, <<"EXPD-4">>}} :
        FetchStep([kind |-> "ok", Issues |-> <<i>>, Total |-> 1])

NextSetup == Setup \/ FetchOneIssue \/ ProcessIssue

SpecSetup == InitSetup /\ [][NextSetup]_vars

(***************************************************************************)
(* main, lines 1906-1921, on result rows whose issues carry every shape of  *)
(* pair value, for every way of giving the -pair switch                     *)
(***************************************************************************)
PairRaws ==
    { AbsentRaw, [kind |-> "null", names |-> <<>>], [kind |-> "other", names |-> <<>>],
      [kind |-> "obj", names |-> << <<>> >>], [kind |-> "obj", names |-> << <<"Alice">> >>],
      [kind |-> "str", names |-> << <<>> >>], [kind |-> "str", names |-> << <<" ">> >>],
      [kind |-> "str", names |-> << <<"Carol">> >>],
      [kind |-> "strarr", names |-> <<>>],
      [kind |-> "strarr", names |-> << <<"Alice">>, <<"Bob">> >>],
      [kind |-> "objarr", names |-> << <<"Dan">> >>],
      [kind |-> "objarr", names |-> << <<"Alice">>, <<>> >>],
      [kind |-> "objarr", names |-> << <<>> >>] }

PairIssue(raw) == MkIssue("EXPD-12", NilDate, SprintArray(<<S1, S2>>), EpicNull, raw)

PairRows == {RowOf(PairIssue(raw)) : raw \in PairRaws}

\* a fetched issue that does not become a row
OneSprintIssue == MkIssue("EXPD-9", NilDate, SprintArray(<<S2>>), EpicStr(<<"EXPD-90">>), AbsentRaw)

InitPair ==
    /\ pc = "write"
    /\ \E p \in PairArgs :
          /\ cmd = [CmdFor(1, FALSE, FALSE, "") EXCEPT !.pair = p]
          /\ pairFieldProvided = getPairFromCommandLine(cmd).provided
          /\ pairFieldName = getPairFromCommandLine(cmd).name
    /\ daysPrior = 1 /\ appendMode = FALSE
    /\ env = OkEnv
    /\ jqlQuery = buildJQLQuery(projectKey, daysPrior)
    /\ calls = <<ProjectCall(projectKey),
                 SearchCall(jqlQuery, 0, batchSize,
                            requiredFields(pairFieldProvided, pairFieldName))>>
    /\ log = {}
    /\ file = [exists |-> FALSE, lines |-> <<>>]
    /\ fileBefore = file
    /\ server = [N |-> 0, cap |-> 0]
    /\ sprintField = SprintNull /\ info = NoInfo
    /\ exitCode = -1
    /\ startAt = 0 /\ batchCount = 1 /\ requests = <<0>> /\ fetchErr = "none"
    /\ multisprintIssues \in SeqsUpTo(PairRows, MaxRows)
    /\ issues = [k \in DOMAIN multisprintIssues |-> multisprintIssues[k].Issue]
                    \o <<OneSprintIssue>>
    /\ allIssues = issues /\ idx = Len(issues)
    /\ epicKeysToLookup = <<>> /\ epicKeySet = {}
    /\ epicTitles = EmptyMap /\ lookups = <<>>
    /\ pairFieldFoundCount = 0 /\ pairWarned = FALSE /\ runsOk = TRUE

NextPair == WriteOutput

SpecPair == InitPair /\ [][NextPair]_vars

(***************************************************************************)
(* One run of the program from the start of main to its end                *)
(***************************************************************************)
MainCommandLines ==
    { CmdFor(2, FALSE, FALSE, ""),
      CmdFor(2, TRUE, TRUE, PairField),
      [CmdFor(2, FALSE, FALSE, "") EXCEPT !.from = [kind |-> "invalid"]] }

MainEnvs == {e \in Envs : e.token # "nocolon" /\ e.key # <<"E", "X", "9">>}

InitMain ==
    /\ pc = "setup"
    /\ cmd \in MainCommandLines
    /\ env \in MainEnvs
    /\ jqlQuery = <<>>
    /\ daysPrior = 0 /\ appendMode = FALSE
    /\ pairFieldProvided = FALSE /\ pairFieldName = ""
    /\ file \in FilesAtStart
    /\ fileBefore = file
    /\ server = [N |-> 0, cap |-> 0]
    /\ sprintField = SprintNull /\ info = NoInfo
    /\ calls = <<>> /\ log = {}
    /\ InitRun

NextMain == Setup \/ FetchPage \/ ProcessIssue \/ LookupAnyEpic \/ WriteOutput

SpecMain == InitMain /\ [][NextMain]_vars

(***************************************************************************)
(* One run from the first search request on, over issues that carry the    *)
(* values the program cannot interpret                                     *)
(***************************************************************************)
\* the sprint-history value is a number
ShapeIssue == MkIssue("EXPD-13", NilDate, SprintOther, EpicStr(<<"EXPD-90">>), AbsentRaw)

\* one sprint, and a resolution timestamp no layout accepts
BadDateIssue == MkIssue("EXPD-14", Garbage, SprintArray(<<S2>>), EpicNull, AbsentRaw)

LogIssues ==
    {ShapeIssue, BadDateIssue}
        \cup {c \in Catalogue : c.Key \in {<<"EXPD-1">>, <<"EXPD-6">>}}

InitLog ==
    /\ pc = "fetch"
    /\ daysPrior = 2 /\ appendMode = FALSE
    /\ pairFieldProvided = TRUE /\ pairFieldName \in {PairField, "customfield_404"}
    /\ file = [exists |-> FALSE, lines |-> <<>>]
    /\ fileBefore = file
    /\ server = [N |-> 0, cap |-> 0]
    /\ sprintField = SprintNull /\ info = NoInfo
    /\ InitRest

FetchLogPage ==
    \E page \in SeqsUpTo(LogIssues, MaxPageLen) :
        FetchStep([kind |-> "ok", Issues |-> page, Total |-> Len(page)])

NextLog == FetchLogPage \/ ProcessIssue \/ LookupEpic \/ WriteOutput

SpecLog == InitLog /\ [][NextLog]_vars

(***************************************************************************)
(* fetchAllJiraIssues against a search endpoint that answers every request *)
(* with status 200, any page and any total up to a bound, kept in server.N *)
(***************************************************************************)
PagingTotals == {0, 1, batchSize, batchSize + 1, 2 * batchSize, MaxTotal}

PagingResponses(bound) ==
    {[kind |-> "ok", Issues |-> page, Total |-> t] :
        page \in SeqsUpTo({c \in Catalogue : c.Key \in {<<"EXPD-1">>, <<"EXPD-9">>}}, MaxPageLen),
        t \in {x \in PagingTotals : x <= bound}}

InitPaging ==
    /\ pc = "fetch"
    /\ daysPrior = 1 /\ appendMode = FALSE
    /\ \E c \in PairConfigs : pairFieldProvided = c.provided /\ pairFieldName = c.name
    /\ file = [exists |-> FALSE, lines |-> <<>>]
    /\ fileBefore = file
    /\ server \in [N : PagingTotals, cap : {batchSize}]
    /\ sprintField = SprintNull /\ info = NoInfo
    /\ InitRest

FetchOkPage == \E resp \in PagingResponses(server.N) : FetchStep(resp)

NextPaging == FetchOkPage

\* the loop has no wait: while it has not returned, its next request is sent
\* and answered
SpecPaging == InitPaging /\ [][NextPaging]_vars /\ WF_vars(NextPaging)

(***************************************************************************)
(* Properties                                                              *)
(***************************************************************************)
FetchReturned == pc \in {"process", "done"}

\* C1: against a server that holds N issues and returns at most cap issues
\* per page, a successful fetchAllJiraIssues returns all N issues, each
\* exactly once (checked under SpecFetch).
C1_AllIssuesFetched ==
    FetchReturned => issues = [k \in 1..server.N |-> k]

C4_OldResolvedExcluded ==
    \A k \in DOMAIN multisprintIssues :
        LET d == multisprintIssues[k].Issue.ResolutionDate
        IN  ~ ( /\ ~d.nil /\ d.hasTime
                /\ formatDate(d) # <<>>
                /\ d.age \div 24 > daysPrior )

\* the names an array entry or a lone string contributes, in input order
EntryHasName(e) ==
    \/ e.ekind = "mapname"
    \/ e.ekind = "str" /\ FindStringSubmatch(e.val) # <<>>

EntryName(e) == IF e.ekind = "mapname" THEN e.val ELSE FindStringSubmatch(e.val)[2]

DistinctNames(f) ==
    IF f.kind = "array"
        THEN {EntryName(f.elems[k]) : k \in {j \in DOMAIN f.elems : EntryHasName(f.elems[j])}}
    ELSE IF f.kind = "strings"
        THEN {FindStringSubmatch(f.strs[k])[2] :
                 k \in {j \in DOMAIN f.strs : FindStringSubmatch(f.strs[j]) # <<>>}}
    ELSE IF f.kind = "string" /\ FindStringSubmatch(f.str) # <<>>
        THEN {FindStringSubmatch(f.str)[2]}
    ELSE {}

\* the lines the run has added to the output path
WrittenLines ==
    IF appendMode
    THEN SubSeq(file.lines, Len(fileBefore.lines) + 1, Len(file.lines))
    ELSE IF file = fileBefore THEN <<>> ELSE file.lines

\* C5: an issue whose sprint history names zero or one distinct sprint gets
\* SprintCount <= 1 and no result row; every result row, and every data row
\* the run writes, has a sprint count of at least 2.
C5_RowsSpanSprints ==
    /\ \A k \in DOMAIN multisprintIssues :
          /\ multisprintIssues[k].SprintInfo.SprintCount >= 2
          /\ multisprintIssues[k].WorkedSprints >= 2
          /\ Cardinality(DistinctNames(multisprintIssues[k].Issue.SprintField)) >= 2
    /\ \A k \in 1..idx :
          Cardinality(DistinctNames(issues[k].SprintField)) <= 1 =>
              /\ parseSprintField(issues[k].SprintField).SprintCount <= 1
              /\ \A j \in DOMAIN multisprintIssues : multisprintIssues[j].Issue # issues[k]
    /\ LET written == WrittenLines
       IN  \A k \in DOMAIN written :
              written[k] = header \/ written[k][19] \notin {<<"0">>, <<"1">>}

\* a run that skipped an issue with one distinct sprint name and wrote a row
C5_Witness ==
    /\ pc = "done" /\ exitCode = 0
    /\ \E k \in DOMAIN issues :
          /\ issues[k].SprintField.kind = "array"
          /\ Len(issues[k].SprintField.elems) = 2
          /\ Cardinality(DistinctNames(issues[k].SprintField)) = 1
    /\ Len(multisprintIssues) = 1
    /\ Len(WrittenLines) >= 1

\* position of the first entry of an array that yields name n
FirstSeen(elems, n) ==
    CHOOSE k \in DOMAIN elems :
        /\ EntryHasName(elems[k]) /\ EntryName(elems[k]) = n
        /\ \A j \in 1..(k - 1) : ~(EntryHasName(elems[j]) /\ EntryName(elems[j]) = n)

\* C6: for a sprint-history array, SprintNames holds each distinct extracted
\* name exactly once, in the order of first occurrence; [Sprint 1, Sprint 2,
\* Sprint 1] gives count 2, names [Sprint 1, Sprint 2], first Sprint 1, last
\* Sprint 2 (checked under SpecParse).
C6_UniqueFirstSeen ==
    (pc = "parsed" /\ sprintField.kind = "array") =>
        LET names == info.SprintNames
            elems == sprintField.elems
        IN  /\ Range(names) = DistinctNames(sprintField)
            /\ \A a, b \in DOMAIN names : a # b => names[a] # names[b]
            /\ \A a, b \in DOMAIN names :
                  a < b => FirstSeen(elems, names[a]) < FirstSeen(elems, names[b])
            /\ elems = <<S1, S2, S1>> =>
                  /\ info.SprintCount = 2
                  /\ names = << <<"Sprint 1">>, <<"Sprint 2">> >>
                  /\ info.FirstSprint = <<"Sprint 1">>
                  /\ info.LastSprint = <<"Sprint 2">>

\* a legacy string and two records, the last repeating the first name
C6_Witness ==
    /\ pc = "parsed"
    /\ sprintField = SprintArray(<<LegacyStr(<<"name=", "Sprint 1">>), S2, S1>>)
    /\ info.SprintCount = 2

RECURSIVE JoinedUpTo(_, _)
\* the first k names, each but the first preceded by ", "
JoinedUpTo(names, k) ==
    IF k = 0 THEN <<>>
    ELSE IF k = 1 THEN names[1]
    ELSE JoinedUpTo(names, k - 1) \o <<",", " ">> \o names[k]

\* C7: every SprintInfo returned has SprintCount = length of SprintNames;
\* with count 0 FirstSprint, LastSprint and AllSprints are empty; otherwise
\* FirstSprint is the first name, LastSprint the final one and AllSprints
\* the names joined by ", " (checked under SpecParse).
C7_InfoConsistent ==
    pc = "parsed" =>
        /\ info.SprintCount = Len(info.SprintNames)
        /\ info.SprintCount = 0 =>
              /\ info.FirstSprint = <<>> /\ info.LastSprint = <<>>
              /\ info.AllSprints = <<>>
        /\ info.SprintCount > 0 =>
              /\ info.FirstSprint = info.SprintNames[1]
              /\ info.LastSprint = info.SprintNames[info.SprintCount]
              /\ info.AllSprints = JoinedUpTo(info.SprintNames, info.SprintCount)

C7_Witness ==
    /\ pc = "parsed"
    /\ info.SprintCount = 3
    /\ info.FirstSprint # info.LastSprint
    /\ Len(info.AllSprints) = 6

\* the issues among the first n fetched that pass both tests of the loop
Kept(n) ==
    SelectSeq(SubSeq(issues, 1, n),
              LAMBDA i : /\ ~ResolvedTooLongAgo(i, daysPrior)
                         /\ parseSprintField(i.SprintField).SprintCount > 1)

DataLines == SelectSeq(WrittenLines, LAMBDA l : l # header)

\* C8: the result rows are exactly the fetched issues that are not skipped
\* as resolved too long ago and have a sprint count above 1, in fetch order,
\* one row per fetched occurrence; the data rows a successful run writes are
\* the result rows in the same order.
C8_RowsInFetchOrder ==
    /\ LET kept == Kept(idx)
       IN  /\ Len(multisprintIssues) = Len(kept)
           /\ \A k \in DOMAIN multisprintIssues : multisprintIssues[k].Issue = kept[k]
    /\ (pc = "done" /\ exitCode = 0 /\ issues # <<>>) =>
          /\ Len(DataLines) = Len(multisprintIssues)
          /\ \A k \in DOMAIN DataLines : DataLines[k][2] = multisprintIssues[k].Issue.Key

\* two different issues were fetched, both became rows and were written
C8_Witness ==
    /\ pc = "done" /\ exitCode = 0
    /\ Len(issues) = 2 /\ Len(multisprintIssues) = 2
    /\ issues[1].Key # issues[2].Key
    /\ Len(DataLines) = 2

\* index of the first result row that refers to epic key e
FirstRef(e) ==
    CHOOSE k \in DOMAIN multisprintIssues :
        /\ multisprintIssues[k].EpicLink = e
        /\ \A j \in 1..(k - 1) : multisprintIssues[j].EpicLink # e

C9_SkippedWitness ==
    /\ idx = 2 /\ Len(multisprintIssues) = 1
    /\ \E k \in 1..2 : getEpicLink(issues[k].EpicLinkField) \notin Range(epicKeysToLookup) \cup {NoEpic}

HeaderLines(lines) == {k \in DOMAIN lines : lines[k] = header}

\* C10: from a path that does not exist, after any sequence of successful
\* writeOutputFile runs in append or overwrite mode the file holds exactly
\* one header row, as its first line (checked under SpecWrite).
C10_OneHeaderFirst ==
    runsOk =>
        IF file.exists
        THEN /\ Len(file.lines) >= 1
             /\ file.lines[1] = header
             /\ HeaderLines(file.lines) = {1}
        ELSE file.lines = <<>>

\* an append run added a row to a file that already held a header
C10_Witness ==
    /\ runsOk /\ appendMode
    /\ fileBefore.exists /\ Len(fileBefore.lines) >= 1
    /\ Len(file.lines) > Len(fileBefore.lines)

\* the lines the latest call of writeOutputFile left behind its starting point
WrittenByCall ==
    IF appendMode
    THEN SubSeq(file.lines, Len(fileBefore.lines) + 1, Len(file.lines))
    ELSE file.lines

WriterCalled == pc = "writer" /\ epicTitles # EmptyMap

C12_HeaderOnEmptyAppend ==
    (WriterCalled /\ runsOk /\ appendMode
        /\ fileBefore.exists /\ fileBefore.lines = <<>>) =>
            /\ Len(file.lines) >= 1
            /\ file.lines[1] = header

\* strings.Split: the pieces of s between the occurrences of sep
Split(s, sep) ==
    LET at     == {k \in DOMAIN s : s[k] = sep}
        nth(i) == IF i = 0 THEN 0
                  ELSE IF i > Cardinality(at) THEN Len(s) + 1
                  ELSE CHOOSE p \in at : Cardinality({q \in at : q < p}) = i - 1
    IN  [i \in 1..(Cardinality(at) + 1) |-> SubSeq(s, nth(i - 1) + 1, nth(i) - 1)]

\* reading a file back: lines on newline (the piece after the final newline
\* is no line), fields on tab
ReadBack(text) ==
    LET pieces == Split(text, "\n")
        lines  == IF pieces[Len(pieces)] = <<>>
                  THEN SubSeq(pieces, 1, Len(pieces) - 1) ELSE pieces
    IN  [k \in DOMAIN lines |-> Split(lines[k], "\t")]

\* C13: writing a result-row list to a new file and splitting the file on
\* newline and tab yields the header plus one line per row, each of 22
\* fields equal to the row's derived values, also when a text field holds
\* a tab or a newline (checked under SpecRoundTrip).
C13_RoundTrip ==
    pc = "written" =>
        LET back == ReadBack(FileText(file.lines))
        IN  /\ Len(back) = 1 + Len(multisprintIssues)
            /\ \A k \in DOMAIN back : Len(back[k]) = 22
            /\ back[1] = header
            /\ \A k \in DOMAIN multisprintIssues :
                  back[k + 1] = DataRow(multisprintIssues[k], epicTitles,
                                        pairFieldProvided, pairFieldName)

\* the round trip of rows without tabs or newlines in their fields
C13_PlainRowsRoundTrip ==
    (pc = "written"
        /\ \A k \in DOMAIN multisprintIssues :
              multisprintIssues[k].Issue \notin {TabIssue, NewlineIssue}) =>
        ReadBack(FileText(file.lines)) = file.lines

\* the 22 column names of the output file
ColumnNames ==
    << <<"Issue Type">>, <<"Issue Key">>, <<"Summary">>, <<"Status">>,
       <<"Updated Date">>, <<"Created Date">>, <<"Resolved Date">>,
       <<"Assignee">>, <<"Pair">>, <<"Project">>, <<"Fix Versions">>,
       <<"Components">>, <<"Story Points">>, <<"Epic Link">>,
       <<"Epic Summary">>, <<"Labels">>, <<"Resolution">>, <<"Reporter">>,
       <<"Number of Sprints">>, <<"First Sprint">>, <<"Last Sprint">>,
       <<"All Sprints">> >>

\* the value of result row r that a column name denotes
Denoted(name, r) ==
    LET i == r.Issue
        v == extractFieldValues(i, pairFieldProvided, pairFieldName)
    IN  CASE name = <<"Issue Type">>        -> i.IssueType
          [] name = <<"Issue Key">>         -> i.Key
          [] name = <<"Summary">>           -> i.Summary
          [] name = <<"Status">>            -> i.Status
          [] name = <<"Updated Date">>      -> formatDate(i.Updated)
          [] name = <<"Created Date">>      -> formatDate(i.Created)
          [] name = <<"Resolved Date">>     -> formatDate(i.ResolutionDate)
          [] name = <<"Assignee">>          -> v.Assignee
          [] name = <<"Pair">>              -> v.Pair
          [] name = <<"Project">>           -> i.ProjectName
          [] name = <<"Fix Versions">>      -> JoinedUpTo(i.FixVersions, Len(i.FixVersions))
          [] name = <<"Components">>        -> JoinedUpTo(i.Components, Len(i.Components))
          [] name = <<"Story Points">>      ->
                 IF i.StoryPoints.nil THEN <<"N/A">> ELSE i.StoryPoints.str
          [] name = <<"Epic Link">>         -> r.EpicLink
          [] name = <<"Epic Summary">>      ->
                 IF r.EpicLink \in DOMAIN epicTitles /\ epicTitles[r.EpicLink] # <<>>
                 THEN epicTitles[r.EpicLink] ELSE <<"No Epic Summary">>
          [] name = <<"Labels">>            -> JoinedUpTo(i.Labels, Len(i.Labels))
          [] name = <<"Resolution">>        -> v.Resolution
          [] name = <<"Reporter">>          -> v.Reporter
          [] name = <<"Number of Sprints">> -> Itoa(r.SprintInfo.SprintCount)
          [] name = <<"First Sprint">>      -> r.SprintInfo.FirstSprint
          [] name = <<"Last Sprint">>       -> r.SprintInfo.LastSprint
          [] name = <<"All Sprints">>       -> r.SprintInfo.AllSprints

RunSucceeded == pc = "done" /\ exitCode = 0 /\ issues # <<>>

C15_ColumnOrder ==
    RunSucceeded =>
        \A k \in DOMAIN DataLines :
            LET r == multisprintIssues[k]
                d(n) == Denoted(<<n>>, r)
            IN  DataLines[k] =
                  << d("Issue Type"), d("Issue Key"), d("Summary"), d("Status"),
                     d("Updated Date"), d("Created Date"), d("Resolved Date"),
                     d("Assignee"), d("Pair"), d("Project"), d("Fix Versions"),
                     d("Components"), d("Story Points"), d("Epic Link"),
                     d("Epic Summary"), d("Labels"), d("Resolution"),
                     d("Reporter"), d("Number of Sprints"), d("First Sprint"),
                     d("Last Sprint"), d("All Sprints") >>

\* a data row whose labels, story points, epic key and epic title all differ
C15_Witness ==
    /\ RunSucceeded
    /\ Len(DataLines) >= 1
    /\ Cardinality({DataLines[1][c] : c \in 13..16}) = 4
    /\ DataLines[1][16] = <<"spill">>

\* C15 as stated: labels is the 13th field, directly after components and
\* before story points, epic key and epic title.
C15_LabelsThirteenth ==
    RunSucceeded =>
        \A k \in DOMAIN DataLines :
            LET r == multisprintIssues[k]
            IN  /\ DataLines[k][12] = Denoted(<<"Components">>, r)
                /\ DataLines[k][13] = Denoted(<<"Labels">>, r)
                /\ DataLines[k][14] = Denoted(<<"Story Points">>, r)
                /\ DataLines[k][15] = Denoted(<<"Epic Link">>, r)
                /\ DataLines[k][16] = Denoted(<<"Epic Summary">>, r)

\* the Pair value the four interpretations give for a raw field value
ExpectedPair(raw) ==
    CASE raw.kind = "objarr" /\ raw.names # <<>> -> JoinedUpTo(raw.names, Len(raw.names))
      [] raw.kind = "obj" /\ raw.names[1] # <<>> -> raw.names[1]
      [] raw.kind = "strarr" /\ raw.names # <<>> -> JoinedUpTo(raw.names, Len(raw.names))
      [] raw.kind = "str" /\ raw.names[1] # <<>> -> raw.names[1]
      [] OTHER -> <<>>

RawUnder(issue, name) == IF name \in DOMAIN issue.Raw THEN issue.Raw[name] ELSE AbsentRaw

\* C16: with the pair field customfield_10186 configured, the Pair column
\* of a row is what the first succeeding interpretation of the field's raw
\* value gives (array of objects, object, array of strings, string), its
\* names joined by ", ", and empty if none succeeds or the field is absent;
\* ["Alice","Bob"] gives "Alice, Bob" and {} gives "" (checked under
\* SpecPair).
C16_PairInterpretation ==
    (RunSucceeded /\ cmd.pair = [kind |-> "value", name |-> "customfield_10186"]) =>
        \A k \in DOMAIN DataLines :
            LET raw  == RawUnder(multisprintIssues[k].Issue, "customfield_10186")
                pair == DataLines[k][9]
            IN  /\ pair = ExpectedPair(raw)
                /\ raw = [kind |-> "strarr", names |-> << <<"Alice">>, <<"Bob">> >>] =>
                      pair = <<"Alice", ",", " ", "Bob">>
                /\ raw = [kind |-> "obj", names |-> << <<>> >>] => pair = <<>>

\* a row for ["Alice","Bob"] and a row for {} were written
C16_Witness ==
    /\ RunSucceeded /\ pairFieldName = "customfield_10186"
    /\ Len(DataLines) = 2
    /\ DataLines[1][9] = <<"Alice", ",", " ", "Bob">>
    /\ multisprintIssues[2].Issue.Raw["customfield_10186"] = [kind |-> "obj", names |-> << <<>> >>]
    /\ DataLines[2][9] = <<>>

\* C17: when -pair is absent, has no following value or is given an empty
\* name, the Pair column of every data row holds the text "Pair", whatever
\* the issue carries (checked under SpecPair).
C17_PairPlaceholder ==
    (RunSucceeded /\ (\/ cmd.pair.kind \in {"absent", "novalue"}
                      \/ cmd.pair = [kind |-> "value", name |-> ""])) =>
        /\ Len(DataLines) = Len(multisprintIssues)
        /\ \A k \in DOMAIN DataLines : DataLines[k][9] = <<"Pair">>

\* -pair was the last argument and the rows' issues do carry pair values
C17_Witness ==
    /\ RunSucceeded /\ cmd.pair.kind = "novalue"
    /\ Len(DataLines) = 2
    /\ multisprintIssues[1].Issue.Raw["customfield_10186"].kind = "strarr"
    /\ multisprintIssues[2].Issue.Raw["customfield_10186"].kind = "str"
    /\ DataLines[1][9] = <<"Pair">>

PairConfigured == cmd.pair.kind = "value" /\ cmd.pair.name # ""

\* C18: on success the returned count is the number of written rows whose
\* Pair value, with a pair field configured, is non-blank after trimming;
\* it lies between 0 and the number of rows, is 0 when no pair field is
\* configured, and the warning is printed iff a pair field is configured
\* and the count is 0 (checked under SpecPair).
C18_PairFoundCount ==
    RunSucceeded =>
        LET counted == {k \in DOMAIN DataLines :
                           /\ PairConfigured
                           /\ \E j \in DOMAIN DataLines[k][9] : DataLines[k][9][j] # " "}
        IN  /\ pairFieldFoundCount = Cardinality(counted)
            /\ pairFieldFoundCount >= 0
            /\ pairFieldFoundCount <= Len(multisprintIssues)
            /\ ~PairConfigured => pairFieldFoundCount = 0
            /\ pairWarned <=> (PairConfigured /\ pairFieldFoundCount = 0)

\* two rows whose pair values are a blank and an empty array: count 0, warning
C18_Witness ==
    /\ RunSucceeded /\ pairFieldName = "customfield_10186"
    /\ Len(DataLines) = 2
    /\ DataLines[1][9] = <<" ">>
    /\ pairFieldFoundCount = 0 /\ pairWarned

\* one of two rows counted, no warning
C18_CountedWitness ==
    /\ RunSucceeded /\ pairFieldName = "customfield_10186"
    /\ Len(DataLines) = 2
    /\ pairFieldFoundCount = 1 /\ ~pairWarned

\* whole days from a number of hours: the d with 24d <= h < 24(d+1) for a
\* moment in the past, and its mirror image for one in the future
WholeDays(h) ==
    IF h >= 0 THEN CHOOSE d \in 0..h : 24 * d <= h /\ h < 24 * (d + 1)
    ELSE -(CHOOSE d \in 0..(-h) : 24 * d <= -h /\ -h < 24 * (d + 1))

PromptsShown == cmd.from.kind \in {"absent", "blank"} /\ cmd.days.kind \in {"absent", "notnumber"}

\* the from date and the day count the user supplied, on the command line or
\* at the prompts
SuppliedFrom ==
    IF cmd.from.kind = "date" THEN cmd.from
    ELSE IF PromptsShown /\ cmd.typedFrom.kind = "date" THEN cmd.typedFrom
    ELSE Absent

SuppliedDays ==
    IF cmd.days.kind = "number" THEN cmd.days.n
    ELSE IF PromptsShown /\ cmd.typedDays.kind = "number" THEN cmd.typedDays.n
    ELSE 0

\* C19: when a from date is supplied, alone or with a day count, the day
\* count in the filter expression and in the resolved-too-long-ago check is
\* the number of whole days between the from date and now and a supplied
\* day count is ignored; otherwise the supplied day count is used, or 10
\* when it is zero or negative (checked under SpecSetup).
C19_DayCount ==
    pc \notin {"setup", "exit1"} =>
        LET expected == IF SuppliedFrom # Absent THEN WholeDays(SuppliedFrom.age)
                        ELSE IF SuppliedDays > 0 THEN SuppliedDays ELSE 10
        IN  /\ daysPrior = expected
            /\ jqlQuery =
                  <<"project = ">> \o env.key
                      \o <<" AND issuetype not in (Epic, Risk, 'Sub-Task') AND Sprint is not EMPTY AND updated >= -">>
                      \o FormatInt(expected) \o <<"d">>
            /\ \A k \in 1..idx :
                  LET d == issues[k].ResolutionDate
                  IN  (\E j \in DOMAIN multisprintIssues : multisprintIssues[j].Issue = issues[k])
                          <=> ~(d.zone \in {"Z", "+hh:mm"} /\ WholeDays(d.age) > expected)

\* -fromdate two days back together with -daysprior 5: the issue resolved
\* three days ago is skipped
C19_Witness ==
    /\ cmd.from = DateArg(48) /\ cmd.days = NumberArg(5)
    /\ daysPrior = 2
    /\ idx = 1 /\ issues[1].Key = <<"EXPD-2">>
    /\ multisprintIssues = <<>>

\* the lookup performed for epic key e
LookupOf(e) == lookups[CHOOSE k \in DOMAIN lookups : lookups[k].key = e]

\* C20: in the Epic Summary column a key whose lookup failed shows "Epic
\* Summary Lookup Failed", a key whose lookup succeeded with a missing or
\* empty summary shows "No Epic Title", and a row without epic shows "No
\* Epic Summary"; the three texts differ and the writer replaces only an
\* empty resolver value.
C20_EpicOutcomesDistinct ==
    RunSucceeded =>
        \A k \in DOMAIN DataLines :
            LET e      == multisprintIssues[k].EpicLink
                shown  == DataLines[k][15]
                noEpic == e = <<"No Epic">>
                failed == ~noEpic /\ LookupOf(e).outcome # "ok"
                blank  == ~noEpic /\ LookupOf(e).outcome = "ok" /\ LookupOf(e).summary = <<>>
            IN  /\ noEpic \/ \E j \in DOMAIN lookups : lookups[j].key = e
                /\ shown = <<"Epic Summary Lookup Failed">> <=> failed
                /\ shown = <<"No Epic Title">> <=> blank
                /\ shown = <<"No Epic Summary">> <=> noEpic
                /\ (~noEpic /\ ~failed /\ ~blank) => shown = LookupOf(e).summary
                /\ ~noEpic => shown = epicTitles[e]

\* a row whose epic has no summary next to a row without epic
C20_Witness ==
    /\ RunSucceeded
    /\ Len(DataLines) = 2
    /\ DataLines[1][15] = <<"No Epic Title">>
    /\ DataLines[2][15] = <<"No Epic Summary">>

\* a row whose epic lookup failed next to a row without epic
C20_FailedWitness ==
    /\ RunSucceeded
    /\ Len(DataLines) = 2
    /\ DataLines[1][15] = <<"No Epic Summary">>
    /\ DataLines[2][15] = <<"Epic Summary Lookup Failed">>

\* the operations of one kind among the external operations so far
CallsOf(op) == SelectSeq(calls, LAMBDA c : c.op = op)

BadToken == env.token \in {"nopath", "missing", "unreadable", "empty"}

BadKey == env.key = <<>> \/ \E k \in DOMAIN env.key : env.key[k] \notin UpperAndDigits

BadDate ==
    \/ cmd.from.kind = "invalid"
    \/ PromptsShown /\ cmd.typedFrom.kind = "invalid"

BadProject == env.project # "ok"

\* C21: a run whose token file is missing, unreadable or empty, whose
\* project key does not match [A-Z0-9]+, whose from date is not yyyy-mm-dd
\* or whose project lookup fails, answers another status than 200 or names
\* another key ends with exit status 1 without any search request, any
\* epic lookup or any change of the output file (checked under SpecMain).
C21_FatalSetupErrors ==
    (pc # "setup" /\ (BadToken \/ BadKey \/ BadDate \/ BadProject)) =>
        /\ pc = "exit1" /\ exitCode = 1
        /\ CallsOf("search") = <<>> /\ requests = <<>>
        /\ CallsOf("epic") = <<>> /\ lookups = <<>>
        /\ CallsOf("file") = <<>> /\ file = fileBefore

\* the project endpoint names another key while a report exists at the
\* output path
C21_Witness ==
    /\ pc = "exit1" /\ env.project = "mismatch"
    /\ calls = <<ProjectCall(env.key)>>
    /\ file.exists /\ file.lines # <<>>

\* a run stopped by a key that does not match
C21_KeyWitness == pc = "exit1" /\ env.key = <<"E", "X", "-", "1">> /\ calls = <<>>

\* the data line of the issue with this key, if the run wrote one
LinesOf(key) == {k \in DOMAIN file.lines : file.lines[k][2] = key}

\* a warning that names the issue or the text it could not read
Mentions(w, issue) ==
    \/ "key" \in DOMAIN w /\ w.key = issue.Key
    \/ "date" \in DOMAIN w /\ w.date = issue.ResolutionDate

\* C22: at the end of a successful run every failed epic lookup has its
\* warning and its sentinel title, a pair field found on no row has its
\* warning, and every fetched issue whose sprint-history value has an
\* unrecognized shape or whose resolution timestamp the resolved-too-long-
\* ago check cannot parse has a warning that names it or a row in the file
\* (checked under SpecLog).
C22_EveryFailureTraced ==
    (pc = "done" /\ exitCode = 0) =>
        /\ \A k \in DOMAIN lookups :
              lookups[k].outcome # "ok" =>
                  /\ EpicWarning(lookups[k].key) \in log
                  /\ epicTitles[lookups[k].key] = LookupFailed
        /\ (pairFieldFoundCount = 0 /\ CallsOf("file") # <<>>) => pairWarned
        /\ \A k \in DOMAIN issues :
              (\/ issues[k].SprintField.kind = "other"
               \/ /\ ~issues[k].ResolutionDate.nil
                  /\ ~TimeParses(RFC3339, issues[k].ResolutionDate)) =>
                  \/ \E w \in log : Mentions(w, issues[k])
                  \/ LinesOf(issues[k].Key) # {}

\* the part of C22 about failed epic lookups and the pair field
C22_LookupsAndPairTraced ==
    (pc = "done" /\ exitCode = 0) =>
        /\ \A k \in DOMAIN lookups :
              lookups[k].outcome # "ok" =>
                  /\ EpicWarning(lookups[k].key) \in log
                  /\ epicTitles[lookups[k].key] = LookupFailed
        /\ (pairFieldFoundCount = 0 /\ CallsOf("file") # <<>>) => pairWarned

\* the part of C22 about sprint-history values of an unrecognized shape
C22_ShapesTraced ==
    (pc = "done" /\ exitCode = 0) =>
        \A k \in DOMAIN issues :
            issues[k].SprintField.kind = "other" =>
                \/ \E w \in log : Mentions(w, issues[k])
                \/ LinesOf(issues[k].Key) # {}

Rank(op) ==
    CASE op = "project" -> 0 [] op = "search" -> 1 [] op = "epic" -> 2 [] op = "file" -> 3

C24_LookupWitness ==
    /\ pc = "done"
    /\ \E k \in DOMAIN lookups : lookups[k].outcome = "network"

\* the search succeeded and returned no issue
NoIssuesFound == pc # "fetch" /\ fetchErr = "none" /\ batchCount > 0 /\ allIssues = <<>>

\* C25: when the search succeeds without any issue, the run ends with the
\* warning logged, exit status 0, no epic lookup and no call of the writer,
\* and the output path is as it was before the run: a missing file is
\* still missing and an existing file holds the same lines, with or
\* without -append (checked under SpecMain).
C25_NoIssuesNoFile ==
    NoIssuesFound =>
        /\ pc = "done" /\ exitCode = 0
        /\ NoIssuesWarning \in log
        /\ CallsOf("epic") = <<>> /\ lookups = <<>>
        /\ CallsOf("file") = <<>>
        /\ file = fileBefore

\* two empty pages in overwrite mode, with a report at the output path
C25_Witness ==
    /\ NoIssuesFound /\ pc = "done"
    /\ ~appendMode /\ fileBefore.exists /\ fileBefore.lines # <<>>
    /\ Len(CallsOf("search")) = 2

\* no issue in append mode, no file at the output path
C25_AppendWitness == NoIssuesFound /\ pc = "done" /\ appendMode /\ ~file.exists

\* C26: whatever field name is configured with -pair, a row whose issue
\* carries a non-blank plain string under that name has the string in its
\* Pair column and is counted in the pair-found count (checked under
\* SpecPair).
C26_PairUnderAnyName ==
    (RunSucceeded /\ cmd.pair.kind = "value" /\ cmd.pair.name # "") =>
        \A k \in DOMAIN DataLines :
            LET raw == RawUnder(multisprintIssues[k].Issue, cmd.pair.name)
            IN  (raw.kind = "str" /\ NonBlank(raw.names[1])) =>
                    /\ DataLines[k][9] = raw.names[1]
                    /\ pairFieldFoundCount >= 1

\* C26 for names outside the decoder's list of known keys
C26_PairUnderOtherNames ==
    (RunSucceeded /\ cmd.pair.kind = "value" /\ cmd.pair.name # ""
        /\ cmd.pair.name \notin knownKeys) =>
        \A k \in DOMAIN DataLines :
            LET raw == RawUnder(multisprintIssues[k].Issue, cmd.pair.name)
            IN  (raw.kind = "str" /\ NonBlank(raw.names[1])) =>
                    /\ DataLines[k][9] = raw.names[1]
                    /\ pairFieldFoundCount >= 1

NameStarts(s) == {k \in DOMAIN s : s[k] = "name="}

\* the text after position k up to, not including, the next comma
RunAfter(s, k) ==
    LET e == CHOOSE j \in k..Len(s) :
                /\ \A m \in (k + 1)..j : s[m] # ","
                /\ (j = Len(s) \/ s[j + 1] = ",")
    IN  SubSeq(s, k + 1, e)

\* the text after the first "name="
FirstNameText(s) ==
    IF NameStarts(s) = {} THEN <<>>
    ELSE RunAfter(s, CHOOSE k \in NameStarts(s) : \A m \in NameStarts(s) : k <= m)

\* the text after the first "name=" that has text between it and the next
\* comma
MatchedNameText(s) ==
    LET found == {k \in NameStarts(s) : RunAfter(s, k) # <<>>}
    IN  IF found = {} THEN <<>>
        ELSE RunAfter(s, CHOOSE k \in found : \A m \in found : k <= m)

\* the names an entry contributes: none or one
Contribution(e, first) ==
    IF e.ekind = "mapname" THEN {e.val}
    ELSE IF e.ekind = "str"
        THEN LET text == IF first THEN FirstNameText(e.val) ELSE MatchedNameText(e.val)
             IN  IF text = <<>> THEN {} ELSE {text}
    ELSE {}

RECURSIVE NamesOf(_, _)
\* the contributions of the entries in encounter order, each name once
NamesOf(v, first) ==
    IF Len(v) = 0 THEN <<>>
    ELSE LET before == NamesOf(SubSeq(v, 1, Len(v) - 1), first)
             c      == Contribution(v[Len(v)], first)
         IN  IF c = {} \/ c \subseteq Range(before) THEN before
             ELSE Append(before, CHOOSE n \in c : TRUE)

\* the entries of a sprint-history value, whatever its form
EntriesOf(f) ==
    IF f.kind = "array" THEN f.elems
    ELSE IF f.kind = "strings" THEN [k \in DOMAIN f.strs |-> LegacyStr(f.strs[k])]
    ELSE IF f.kind = "string" THEN <<LegacyStr(f.str)>>
    ELSE <<>>

\* C27 as stated: parseSprintField returns a SprintInfo for every value; a
\* value of an unrecognized shape gives the empty SprintInfo with count 0;
\* entries without a usable name are skipped and the names of the other
\* entries are kept in order; a legacy string contributes the text after
\* its first "name=" up to the next comma (checked under SpecParse).
C27_FirstNameOfString ==
    pc = "parsed" =>
        /\ info # NoInfo
        /\ sprintField.kind \in {"null", "other"} => info = EmptyInfo /\ info.SprintCount = 0
        /\ info.SprintNames = NamesOf(EntriesOf(sprintField), TRUE)
        /\ info.SprintCount = Len(info.SprintNames)

\* C27, amended: as above, but a legacy string contributes the text after
\* the first "name=" that is directly followed by something other than a
\* comma, up to the next comma; a "name=" directly followed by a comma or
\* by the end of the string is passed over (checked under SpecParse).
C27_ParseNeverFails ==
    pc = "parsed" =>
        /\ info # NoInfo
        /\ sprintField.kind \in {"null", "other"} => info = EmptyInfo /\ info.SprintCount = 0
        /\ info.SprintNames = NamesOf(EntriesOf(sprintField), FALSE)
        /\ info.SprintCount = Len(info.SprintNames)

\* a record whose name is not a string between two entries that have names
C27_Witness ==
    /\ pc = "parsed"
    /\ sprintField = SprintArray(<<S1, [ekind |-> "mapnonstr", val |-> <<>>],
                                   LegacyStr(<<"name=", "Sprint 2">>)>>)
    /\ info.SprintNames = << <<"Sprint 1">>, <<"Sprint 2">> >>

\* a number as sprint-history value
C27_ShapeWitness == pc = "parsed" /\ sprintField = SprintOther /\ info.SprintCount = 0

\* a legacy string whose first "name=" is directly followed by a comma
C27_SecondNameWitness ==
    /\ pc = "parsed"
    /\ sprintField = SprintString(<<"name=", ",", "name=", "Sprint 2">>)
    /\ info.SprintNames = << <<"Sprint 2">> >>

\* max(1, ceil(b / 100))
MaxRequests(b) == IF b <= batchSize THEN 1 ELSE (b + batchSize - 1) \div batchSize

PagingSafe ==
    /\ \A k \in DOMAIN CallsOf("search") :
          CallsOf("search")[k] =
              SearchCall(jqlQuery, (k - 1) * batchSize, batchSize,
                         requiredFields(pairFieldProvided, pairFieldName))
    /\ Len(CallsOf("search")) <= MaxRequests(server.N)
    /\ pc # "fetch" => Len(CallsOf("search")) >= 1

\* C28: when every answer is a success with a total of at most B, whatever
\* the pages hold, fetchAllJiraIssues returns; its requests carry the
\* offsets 0, 100, 200, ... in this order, the same filter expression, the
\* same field list and page size 100, and there are at least one and at
\* most max(1, ceil(B / 100)) of them (checked under SpecPaging).
C28_PagingTerminates == [](PagingSafe) /\ <>(pc # "fetch")

\* three empty pages, each with the largest total
C28_Witness ==
    /\ pc = "done" /\ allIssues = <<>>
    /\ server.N = MaxTotal
    /\ Len(CallsOf("search")) = 3

\* a total of 0 with a page that holds issues
C28_ZeroTotalWitness == pc = "process" /\ Len(CallsOf("search")) = 1 /\ Len(allIssues) = MaxPageLen

\* the data rows of this run
RowsOfRun ==
    [k \in DOMAIN multisprintIssues |->
        DataRow(multisprintIssues[k], epicTitles, pairFieldProvided, pairFieldName)]

\* the run called the writer and the writer returned without error
WriterSucceeded == pc = "done" /\ exitCode = 0 /\ CallsOf("file") # <<>>

\* C29: after a run whose writer call succeeded, in append mode the file
\* holds its previous lines, then the header if the path did not exist,
\* then the rows of the run; in overwrite mode it holds the header and the
\* rows of the run and nothing else, so that a run with fetched issues and
\* no result row leaves a file of the header alone in place of an existing
\* report (checked under SpecMain).
C29_WriterFrame ==
    WriterSucceeded =>
        /\ file.exists
        /\ appendMode =>
              file.lines = fileBefore.lines
                              \o (IF fileBefore.exists THEN <<>> ELSE <<header>>)
                              \o RowsOfRun
        /\ ~appendMode => file.lines = <<header>> \o RowsOfRun
        /\ (~appendMode /\ multisprintIssues = <<>>) => file.lines = <<header>>

\* an overwrite run with one fetched issue and no result row on a path that
\* held a report
C29_Witness ==
    /\ WriterSucceeded /\ ~appendMode
    /\ issues # <<>> /\ multisprintIssues = <<>>
    /\ fileBefore.lines = <<header, OldLine>>
    /\ file.lines = <<header>>

\* an append run that added two rows to a report
C29_AppendWitness ==
    /\ WriterSucceeded /\ appendMode
    /\ fileBefore.lines = <<header, OldLine>>
    /\ Len(file.lines) = 4

\* C30: whenever the setup accepts the from date and the day count, the day
\* count used by the filter expression and by the resolved-too-long-ago
\* check is at least 0 and the filter expression ends in updated >= -<n>d
\* with n written without a sign, also for a from date of today or in the
\* future (checked under SpecSetup).
C30_DayCountNotNegative ==
    pc \notin {"setup", "exit1"} =>
        /\ daysPrior >= 0
        /\ \A k \in DOMAIN jqlQuery : jqlQuery[k] # "-"

\* C30 for from dates that do not lie in the future
C30_PastDatesNotNegative ==
    (pc \notin {"setup", "exit1"} /\ (SuppliedFrom # Absent => SuppliedFrom.age >= 0)) =>
        /\ daysPrior >= 0
        /\ \A k \in DOMAIN jqlQuery : jqlQuery[k] # "-"
====
